---- MODULE Spec2Model ----
(***************************************************************************)
(* A model of the trend-search service: the cross-platform trending        *)
(* keyword aggregator of main.py, the age-group analysis service and the   *)
(* YouTube timeframe analyzer.                                             *)
(*                                                                         *)
(* Text is a sequence of characters: a printable ASCII character is the    *)
(* one-character string of itself, any other character "u" followed by its *)
(* code point in upper-case hexadecimal, at least four digits.  A nullable *)
(* value (Python None) is the empty sequence, a present value v is <<v>>.  *)
(* A Python float is the IEEE double it is, held exactly.                  *)
(***************************************************************************)
EXTENDS Integers, Sequences, FiniteSets, TLC

VARIABLES
    aggIn,      \* what the three platform collaborators answer to the facade's calls
    aggOut,     \* the facade's response to the last aggregation request
    ranked,     \* the value extract_trending_keywords returned in that request
    ageEnv,     \* what the platform collaborators answer to the age service's calls
    popular,    \* AgeAnalysisService.age_group_popular_keywords
    ageOut,     \* the outcome of the last AgeAnalysisService request
    ageCalls,   \* the collaborator calls that request made, in order
    ytEnv,      \* what the YouTube Data API answers to the analysis' calls
    anReq,      \* the YouTubeAnalyzeRequest being served
    anPc,       \* the stage YouTubeService.analyze runs next
    anRows,     \* its local `collected`
    anFiltered, \* its local `filtered_rows`
    anOut,      \* what the last analyze call returned or raised
    anHist,     \* the stages the call has completed, each with the rows it left
    anCalls,    \* the API calls the call has issued, in order
    fnIn,       \* the arguments of a call of one of the services' pure helpers
    fnOut       \* what that call returned

aggVars == <<aggIn, aggOut, ranked>>
ageVars == <<ageEnv, popular, ageOut, ageCalls>>
anVars == <<ytEnv, anReq, anPc, anRows, anFiltered, anOut, anHist, anCalls>>
fnVars == <<fnIn, fnOut>>
vars == <<aggIn, aggOut, ranked, ageEnv, popular, ageOut, ageCalls,
          ytEnv, anReq, anPc, anRows, anFiltered, anOut, anHist, anCalls, fnIn, fnOut>>

(***************************************************************************)
(* Option values and small helpers                                         *)
(***************************************************************************)
None == <<>>
Some(v) == <<v>>
OrElse(o, d) == IF o = <<>> THEN d ELSE o[1]

Min(a, b) == IF a <= b THEN a ELSE b

RECURSIVE SumSeq(_)
SumSeq(s) == IF s = <<>> THEN 0 ELSE s[1] + SumSeq(Tail(s))

\* the index at which the slice [:stop] of a list of len elements ends: a
\* negative stop counts from the end of the list
SliceStop(len, stop) ==
    IF stop >= 0 THEN Min(stop, len)
    ELSE IF len + stop > 0 THEN len + stop ELSE 0

\* s[:n]
Take(s, n) == SubSeq(s, 1, SliceStop(Len(s), n))

(***************************************************************************)
(* Python floats.  A float is an IEEE 754 double; the services compute     *)
(* their scores with them, and a score such as 4997 * 0.1 + 1 * 0.3 is not *)
(* the decimal 500.0.  A double is kept exactly, as sign * m * 2^e with m  *)
(* an odd natural number of at most 53 bits (zero: s = 0).  Naturals       *)
(* beyond the machine integers are sequences of 15-bit limbs, the least    *)
(* significant first, without leading zero limbs.  Infinities, NaN and     *)
(* the sign of zero are not represented; an int that meets a float in an   *)
(* expression is the double of the same value.                             *)
(***************************************************************************)
RECURSIVE BigNorm(_)
BigNorm(a) ==
    IF a = <<>> THEN <<>>
    ELSE IF a[Len(a)] = 0 THEN BigNorm(SubSeq(a, 1, Len(a) - 1)) ELSE a

RECURSIVE BigFromInt(_)
BigFromInt(n) == IF n = 0 THEN <<>> ELSE <<n % (2^15)>> \o BigFromInt(n \div (2^15))

RECURSIVE BigToInt(_)
BigToInt(a) == IF a = <<>> THEN 0 ELSE a[1] + (2^15) * BigToInt(Tail(a))

RECURSIVE BigAddC(_, _, _)
BigAddC(a, b, c) ==
    IF a = <<>> /\ b = <<>> THEN (IF c = 0 THEN <<>> ELSE <<c>>)
    ELSE IF a = <<>> THEN BigAddC(b, a, c)
    ELSE IF b = <<>>
    THEN IF c = 0 THEN a
         ELSE IF a[1] + c < 2^15 THEN <<a[1] + c>> \o Tail(a)
         ELSE <<0>> \o BigAddC(Tail(a), <<>>, 1)
    ELSE LET t == a[1] + b[1] + c
         IN  <<t % (2^15)>> \o BigAddC(Tail(a), Tail(b), t \div (2^15))

BigAdd(a, b) == BigAddC(a, b, 0)

\* a - b - borrow for a >= b, before the leading zero limbs are dropped
RECURSIVE BigSubB(_, _, _)
BigSubB(a, b, borrow) ==
    IF a = <<>> THEN <<>>
    ELSE IF b = <<>> /\ borrow = 0 THEN a
    ELSE LET t == a[1] - (IF b = <<>> THEN 0 ELSE b[1]) - borrow
         IN  <<IF t < 0 THEN t + 2^15 ELSE t>>
                 \o BigSubB(Tail(a), IF b = <<>> THEN <<>> ELSE Tail(b), IF t < 0 THEN 1 ELSE 0)

BigSub(a, b) == BigNorm(BigSubB(a, b, 0))

RECURSIVE BigCmpFrom(_, _, _)
BigCmpFrom(a, b, i) ==
    IF i = 0 THEN 0
    ELSE IF a[i] > b[i] THEN 1
    ELSE IF a[i] < b[i] THEN -1
    ELSE BigCmpFrom(a, b, i - 1)

\* -1, 0 or 1 as a < b, a = b or a > b
BigCmp(a, b) ==
    IF Len(a) > Len(b) THEN 1
    ELSE IF Len(a) < Len(b) THEN -1
    ELSE BigCmpFrom(a, b, Len(a))

\* a * d + c for one limb d
RECURSIVE BigMulSmall(_, _, _)
BigMulSmall(a, d, c) ==
    IF a = <<>> THEN (IF c = 0 THEN <<>> ELSE <<c>>)
    ELSE LET t == a[1] * d + c
         IN  <<t % (2^15)>> \o BigMulSmall(Tail(a), d, t \div (2^15))

RECURSIVE BigMulRows(_, _)
BigMulRows(a, b) ==
    IF b = <<>> THEN <<>>
    ELSE BigAdd(BigMulSmall(a, b[1], 0), <<0>> \o BigMulRows(a, Tail(b)))

BigMul(a, b) ==
    IF a = <<>> \/ b = <<>> THEN <<>>
    ELSE IF Len(b) = 1 THEN BigMulSmall(a, b[1], 0)
    ELSE IF Len(a) = 1 THEN BigMulSmall(b, a[1], 0)
    ELSE BigNorm(BigMulRows(a, b))

\* a * 2^k
BigShl(a, k) ==
    IF a = <<>> THEN <<>>
    ELSE [i \in 1..(k \div 15) |-> 0] \o BigMulSmall(a, 2^(k % 15), 0)

\* the limbs 1..i of a divided by d, given the remainder r of the limbs above
RECURSIVE BigDivLimbs(_, _, _, _)
BigDivLimbs(a, d, i, r) ==
    IF i = 0 THEN [q |-> <<>>, r |-> r]
    ELSE LET t == r * (2^15) + a[i]
             rest == BigDivLimbs(a, d, i - 1, t % d)
         IN  [q |-> Append(rest.q, t \div d), r |-> rest.r]

\* quotient and remainder of a by d, 0 < d < 2^16
NormQuotient(res) == [q |-> BigNorm(res.q), r |-> res.r]

BigDivSmall(a, d) == NormQuotient(BigDivLimbs(a, d, Len(a), 0))

\* floor(a / 2^k)
BigShr(a, k) ==
    IF k \div 15 >= Len(a) THEN <<>>
    ELSE IF k % 15 = 0 THEN SubSeq(a, k \div 15 + 1, Len(a))
    ELSE BigDivSmall(SubSeq(a, k \div 15 + 1, Len(a)), 2^(k % 15)).q

SmallBitLen(n) == CHOOSE k \in 1..15 : 2^(k - 1) <= n /\ n < 2^k

\* the number of bits of a
BigBitLen(a) == IF a = <<>> THEN 0 ELSE 15 * (Len(a) - 1) + SmallBitLen(a[Len(a)])

\* bit i of a, bit 1 the lowest
BigBit(a, i) == (a[(i - 1) \div 15 + 1] \div 2^((i - 1) % 15)) % 2

\* the largest d in lo..hi with d * b <= r
RECURSIVE BigQuotientLimb(_, _, _, _)
BigQuotientLimb(r, b, lo, hi) ==
    IF lo = hi THEN lo
    ELSE IF BigCmp(BigMulSmall(b, (lo + hi + 1) \div 2, 0), r) <= 0
    THEN BigQuotientLimb(r, b, (lo + hi + 1) \div 2, hi)
    ELSE BigQuotientLimb(r, b, lo, (lo + hi + 1) \div 2 - 1)

\* long division by a b of several limbs: the limbs 1..i of a, given the
\* remainder r of the limbs above
RECURSIVE BigDivLong(_, _, _, _)
RECURSIVE BigDivStep(_, _, _, _, _)
BigDivLong(a, b, i, r) ==
    IF i = 0 THEN [q |-> <<>>, r |-> r]
    ELSE BigDivStep(a, b, i, BigNorm(<<a[i]>> \o r),
                    BigQuotientLimb(BigNorm(<<a[i]>> \o r), b, 0, 2^15 - 1))

\* the step of the long division at limb i: d is the quotient limb of the
\* running remainder cur
BigDivStep(a, b, i, cur, d) ==
    LET rest == BigDivLong(a, b, i - 1, BigSub(cur, BigMulSmall(b, d, 0)))
    IN  [q |-> Append(rest.q, d), r |-> rest.r]

ExactQuotient(res, zero) == [q |-> BigNorm(res.q), exact |-> res.r = zero]

\* quotient of a by b > 0, and whether the division is exact
BigDivMod(a, b) ==
    IF Len(b) = 1
    THEN ExactQuotient(BigDivSmall(a, b[1]), 0)
    ELSE ExactQuotient(BigDivLong(a, b, Len(a), <<>>), <<>>)

\* the number of zero bits below the lowest one bit of a > 0
RECURSIVE BigTrailingZeros(_)
BigTrailingZeros(a) ==
    IF a[1] = 0 THEN 15 + BigTrailingZeros(Tail(a))
    ELSE CHOOSE k \in 0..14 : a[1] % (2^k) = 0 /\ a[1] % (2^(k + 1)) # 0

FZero == [s |-> 0, m |-> <<>>, e |-> 0]

\* the double s * n * 2^e for n of at most 53 bits
FShifted(s, n, e, z) == [s |-> s, m |-> BigShr(n, z), e |-> e + z]

FExact(s, n, e) ==
    IF n = <<>> THEN FZero
    ELSE IF n[1] % 2 = 1 THEN [s |-> s, m |-> n, e |-> e]
    ELSE FShifted(s, n, e, BigTrailingZeros(n))

\* n with its k lowest bits rounded away, to nearest, ties to even; sticky
\* tells that the exact value lies above n
RoundUpOrDown(q, half, sticky) ==
    IF half > 0 \/ (half = 0 /\ (sticky \/ (q # <<>> /\ q[1] % 2 = 1)))
    THEN BigAddC(q, <<>>, 1)
    ELSE q

\* q is floor(n / 2^k): the bits rounded away are compared with the half
RoundQuotient(n, k, sticky, q) ==
    RoundUpOrDown(q, BigCmp(BigSub(n, BigShl(q, k)), BigShl(<<1>>, k - 1)), sticky)

BigRoundShr(n, k, sticky) == RoundQuotient(n, k, sticky, BigShr(n, k))

FRoundBits(s, n, e, sticky, bits) ==
    IF bits <= 53 THEN FExact(s, n, e)
    ELSE FExact(s, BigRoundShr(n, bits - 53, sticky), e + bits - 53)

\* the double nearest to s * n * 2^e (IEEE 754 round to nearest, ties to even)
FRound(s, n, e, sticky) == FRoundBits(s, n, e, sticky, BigBitLen(n))

\* float(n) of an int
FInt(n) == IF n = 0 THEN FZero ELSE FExact(IF n < 0 THEN -1 ELSE 1, BigFromInt(IF n < 0 THEN -n ELSE n), 0)

FNeg(x) == [x EXCEPT !.s = -x.s]

\* the exact sum of two doubles of one sign, or the exact difference of
\* their magnitudes, as sign, natural and exponent
SumAligned(x, y, e, nx, ny) ==
    IF x.s = y.s THEN [s |-> x.s, n |-> BigAdd(nx, ny), e |-> e]
    ELSE IF BigCmp(nx, ny) >= 0 THEN [s |-> x.s, n |-> BigSub(nx, ny), e |-> e]
    ELSE [s |-> y.s, n |-> BigSub(ny, nx), e |-> e]

SumAt(x, y, e) == SumAligned(x, y, e, BigShl(x.m, x.e - e), BigShl(y.m, y.e - e))

FSumExact(x, y) == SumAt(x, y, IF x.e < y.e THEN x.e ELSE y.e)

FRoundSum(sum) == FRound(sum.s, sum.n, sum.e, FALSE)

\* x + y
FAdd(x, y) ==
    IF x.s = 0 THEN y
    ELSE IF y.s = 0 THEN x
    ELSE FRoundSum(FSumExact(x, y))

\* x - y
FSub(x, y) == FAdd(x, FNeg(y))

\* x * y
FMul(x, y) ==
    IF x.s = 0 \/ y.s = 0 THEN FZero
    ELSE FRound(x.s * y.s, BigMul(x.m, y.m), x.e + y.e, FALSE)

\* the double nearest to s * (n / d) * 2^e for naturals n and d > 0: the
\* dividend is shifted so that the quotient has 55 bits or more
FRoundQuotient(s, res, e) == FRound(s, res.q, e, ~res.exact)

FQuotientShifted(s, n, d, e, k) == FRoundQuotient(s, BigDivMod(BigShl(n, k), d), e - k)

FQuotientNeeding(s, n, d, e, need) == FQuotientShifted(s, n, d, e, IF need > 0 THEN need ELSE 0)

FQuotient(s, n, d, e) ==
    IF n = <<>> THEN FZero
    ELSE FQuotientNeeding(s, n, d, e, 56 + BigBitLen(d) - BigBitLen(n))

\* x / y for y # 0
FDiv(x, y) ==
    IF x.s = 0 THEN FZero
    ELSE IF y.m = <<1>> THEN [s |-> x.s * y.s, m |-> x.m, e |-> x.e - y.e]
    ELSE FQuotient(x.s * y.s, x.m, y.m, x.e - y.e)

\* -1, 0 or 1 as x < y, x = y or x > y
FCmp(x, y) ==
    IF x = y THEN 0
    ELSE IF x.s # y.s THEN (IF x.s > y.s THEN 1 ELSE -1)
    ELSE FSumExact(x, FNeg(y)).s

FLess(x, y) == FCmp(x, y) < 0

\* min(x, y) of Python: y only when it is smaller
FMin(x, y) == IF FCmp(y, x) < 0 THEN y ELSE x

\* int(x): the integer part
FTrunc(x) ==
    IF x.s = 0 THEN 0
    ELSE IF x.e >= 0 THEN x.s * BigToInt(BigShl(x.m, x.e))
    ELSE x.s * BigToInt(BigShr(x.m, -x.e))

\* round(x, 2): the exact value of the double rounded to a whole number of
\* hundredths, ties to even, and the double nearest to that decimal
Round2(x) ==
    IF x.s = 0 \/ x.e >= 0 THEN x
    ELSE FQuotient(x.s, BigRoundShr(BigMulSmall(x.m, 100, 0), -x.e, FALSE), <<100>>, 0)

\* the double the true division n / d of two ints gives; a decimal literal
\* such as 0.1 denotes the double FRatio(1, 10)
FRatio(n, d) == FDiv(FInt(n), FInt(d))

\* the numbers the services' expressions hold as literals
F1 == FInt(1)
F10 == FInt(10)
F50 == FInt(50)
F100 == FInt(100)
F200 == FInt(200)
F500 == FInt(500)
F1000 == FInt(1000)
F0_1 == FRatio(1, 10)
F0_2 == FRatio(2, 10)
F0_3 == FRatio(3, 10)
F0_4 == FRatio(4, 10)
F0_8 == FRatio(8, 10)
F1e_6 == FRatio(1, 1000000)

FMax(x, y) == IF FCmp(y, x) > 0 THEN y ELSE x

\* sum(xs) from start, left to right
RECURSIVE FSum(_, _)
FSum(xs, start) == IF xs = <<>> THEN start ELSE FSum(Tail(xs), FAdd(start, xs[1]))

(***************************************************************************)
(* Characters.  A character is a string: a printable ASCII character is    *)
(* itself, except that the double quote, the backslash and the backquote   *)
(* are "u0022", "u005C" and "u0060"; every other character is "u" followed *)
(* by its code point in upper-case hexadecimal, at least four digits.      *)
(* The tables below are those of the interpreter's Unicode database        *)
(* (Unicode 14).                                                           *)
(***************************************************************************)
Printable == <<
    " ","!","u0022","#","$","%","&","'","(",")","*","+",",","-",".","/",
    "0","1","2","3","4","5","6","7","8","9",":",";","<","=",">","?","@",
    "A","B","C","D","E","F","G","H","I","J","K","L","M",
    "N","O","P","Q","R","S","T","U","V","W","X","Y","Z",
    "[","u005C","]","^","_","u0060",
    "a","b","c","d","e","f","g","h","i","j","k","l","m",
    "n","o","p","q","r","s","t","u","v","w","x","y","z",
    "{","|","}","~" >>

HexDigits == <<"0","1","2","3","4","5","6","7","8","9","A","B","C","D","E","F">>

HexValue == [c \in {HexDigits[i] : i \in 1..16} |-> (CHOOSE i \in 1..16 : HexDigits[i] = c) - 1]

RECURSIVE HexNumber(_, _, _)
HexNumber(c, i, acc) ==
    IF i > Len(c) THEN acc ELSE HexNumber(c, i + 1, acc * 16 + HexValue[SubSeq(c, i, i)])

AsciiCode ==
    [c \in {Printable[i] : i \in {k \in 1..95 : Len(Printable[k]) = 1}} |->
        31 + CHOOSE i \in 1..95 : Printable[i] = c]

\* ord(c)
CodePoint(c) == IF Len(c) = 1 THEN AsciiCode[c] ELSE HexNumber(c, 2, 0)

RECURSIVE Hex(_, _)
Hex(n, width) ==
    IF n < 16 /\ width <= 1 THEN HexDigits[n + 1]
    ELSE Hex(n \div 16, width - 1) \o HexDigits[(n % 16) + 1]

\* chr(n)
Char(n) == IF n \in 32..126 THEN Printable[n - 31] ELSE "u" \o Hex(n, 4)

\* the last row of a table sorted by its first column whose first column is
\* at most n, among rows lo..hi (lo - 1 when there is none)
RECURSIVE RowAtOrBelow(_, _, _, _)
RowAtOrBelow(table, n, lo, hi) ==
    IF lo > hi THEN hi
    ELSE LET mid == (lo + hi) \div 2
         IN  IF table[mid][1] <= n
             THEN RowAtOrBelow(table, n, mid + 1, hi)
             ELSE RowAtOrBelow(table, n, lo, mid - 1)

EndsAtOrAbove(table, r, n) == r > 0 /\ n <= table[r][2]

InRanges(table, n) == EndsAtOrAbove(table, RowAtOrBelow(table, n, 1, Len(table)), n)


\* the code points the pattern \w matches on str, as sorted ranges <<first, last>>
WordRanges == <<
    <<48,57>>, <<65,90>>, <<95,95>>, <<97,122>>, <<170,170>>, <<178,179>>,
    <<181,181>>, <<185,186>>, <<188,190>>, <<192,214>>, <<216,246>>, <<248,705>>,
    <<710,721>>, <<736,740>>, <<748,748>>, <<750,750>>, <<880,884>>, <<886,887>>,
    <<890,893>>, <<895,895>>, <<902,902>>, <<904,906>>, <<908,908>>, <<910,929>>,
    <<931,1013>>, <<1015,1153>>, <<1162,1327>>, <<1329,1366>>, <<1369,1369>>, <<1376,1416>>,
    <<1488,1514>>, <<1519,1522>>, <<1568,1610>>, <<1632,1641>>, <<1646,1647>>, <<1649,1747>>,
    <<1749,1749>>, <<1765,1766>>, <<1774,1788>>, <<1791,1791>>, <<1808,1808>>, <<1810,1839>>,
    <<1869,1957>>, <<1969,1969>>, <<1984,2026>>, <<2036,2037>>, <<2042,2042>>, <<2048,2069>>,
    <<2074,2074>>, <<2084,2084>>, <<2088,2088>>, <<2112,2136>>, <<2144,2154>>, <<2160,2183>>,
    <<2185,2190>>, <<2208,2249>>, <<2308,2361>>, <<2365,2365>>, <<2384,2384>>, <<2392,2401>>,
    <<2406,2415>>, <<2417,2432>>, <<2437,2444>>, <<2447,2448>>, <<2451,2472>>, <<2474,2480>>,
    <<2482,2482>>, <<2486,2489>>, <<2493,2493>>, <<2510,2510>>, <<2524,2525>>, <<2527,2529>>,
    <<2534,2545>>, <<2548,2553>>, <<2556,2556>>, <<2565,2570>>, <<2575,2576>>, <<2579,2600>>,
    <<2602,2608>>, <<2610,2611>>, <<2613,2614>>, <<2616,2617>>, <<2649,2652>>, <<2654,2654>>,
    <<2662,2671>>, <<2674,2676>>, <<2693,2701>>, <<2703,2705>>, <<2707,2728>>, <<2730,2736>>,
    <<2738,2739>>, <<2741,2745>>, <<2749,2749>>, <<2768,2768>>, <<2784,2785>>, <<2790,2799>>,
    <<2809,2809>>, <<2821,2828>>, <<2831,2832>>, <<2835,2856>>, <<2858,2864>>, <<2866,2867>>,
    <<2869,2873>>, <<2877,2877>>, <<2908,2909>>, <<2911,2913>>, <<2918,2927>>, <<2929,2935>>,
    <<2947,2947>>, <<2949,2954>>, <<2958,2960>>, <<2962,2965>>, <<2969,2970>>, <<2972,2972>>,
    <<2974,2975>>, <<2979,2980>>, <<2984,2986>>, <<2990,3001>>, <<3024,3024>>, <<3046,3058>>,
    <<3077,3084>>, <<3086,3088>>, <<3090,3112>>, <<3114,3129>>, <<3133,3133>>, <<3160,3162>>,
    <<3165,3165>>, <<3168,3169>>, <<3174,3183>>, <<3192,3198>>, <<3200,3200>>, <<3205,3212>>,
    <<3214,3216>>, <<3218,3240>>, <<3242,3251>>, <<3253,3257>>, <<3261,3261>>, <<3293,3294>>,
    <<3296,3297>>, <<3302,3311>>, <<3313,3314>>, <<3332,3340>>, <<3342,3344>>, <<3346,3386>>,
    <<3389,3389>>, <<3406,3406>>, <<3412,3414>>, <<3416,3425>>, <<3430,3448>>, <<3450,3455>>,
    <<3461,3478>>, <<3482,3505>>, <<3507,3515>>, <<3517,3517>>, <<3520,3526>>, <<3558,3567>>,
    <<3585,3632>>, <<3634,3635>>, <<3648,3654>>, <<3664,3673>>, <<3713,3714>>, <<3716,3716>>,
    <<3718,3722>>, <<3724,3747>>, <<3749,3749>>, <<3751,3760>>, <<3762,3763>>, <<3773,3773>>,
    <<3776,3780>>, <<3782,3782>>, <<3792,3801>>, <<3804,3807>>, <<3840,3840>>, <<3872,3891>>,
    <<3904,3911>>, <<3913,3948>>, <<3976,3980>>, <<4096,4138>>, <<4159,4169>>, <<4176,4181>>,
    <<4186,4189>>, <<4193,4193>>, <<4197,4198>>, <<4206,4208>>, <<4213,4225>>, <<4238,4238>>,
    <<4240,4249>>, <<4256,4293>>, <<4295,4295>>, <<4301,4301>>, <<4304,4346>>, <<4348,4680>>,
    <<4682,4685>>, <<4688,4694>>, <<4696,4696>>, <<4698,4701>>, <<4704,4744>>, <<4746,4749>>,
    <<4752,4784>>, <<4786,4789>>, <<4792,4798>>, <<4800,4800>>, <<4802,4805>>, <<4808,4822>>,
    <<4824,4880>>, <<4882,4885>>, <<4888,4954>>, <<4969,4988>>, <<4992,5007>>, <<5024,5109>>,
    <<5112,5117>>, <<5121,5740>>, <<5743,5759>>, <<5761,5786>>, <<5792,5866>>, <<5870,5880>>,
    <<5888,5905>>, <<5919,5937>>, <<5952,5969>>, <<5984,5996>>, <<5998,6000>>, <<6016,6067>>,
    <<6103,6103>>, <<6108,6108>>, <<6112,6121>>, <<6128,6137>>, <<6160,6169>>, <<6176,6264>>,
    <<6272,6276>>, <<6279,6312>>, <<6314,6314>>, <<6320,6389>>, <<6400,6430>>, <<6470,6509>>,
    <<6512,6516>>, <<6528,6571>>, <<6576,6601>>, <<6608,6618>>, <<6656,6678>>, <<6688,6740>>,
    <<6784,6793>>, <<6800,6809>>, <<6823,6823>>, <<6917,6963>>, <<6981,6988>>, <<6992,7001>>,
    <<7043,7072>>, <<7086,7141>>, <<7168,7203>>, <<7232,7241>>, <<7245,7293>>, <<7296,7304>>,
    <<7312,7354>>, <<7357,7359>>, <<7401,7404>>, <<7406,7411>>, <<7413,7414>>, <<7418,7418>>,
    <<7424,7615>>, <<7680,7957>>, <<7960,7965>>, <<7968,8005>>, <<8008,8013>>, <<8016,8023>>,
    <<8025,8025>>, <<8027,8027>>, <<8029,8029>>, <<8031,8061>>, <<8064,8116>>, <<8118,8124>>,
    <<8126,8126>>, <<8130,8132>>, <<8134,8140>>, <<8144,8147>>, <<8150,8155>>, <<8160,8172>>,
    <<8178,8180>>, <<8182,8188>>, <<8304,8305>>, <<8308,8313>>, <<8319,8329>>, <<8336,8348>>,
    <<8450,8450>>, <<8455,8455>>, <<8458,8467>>, <<8469,8469>>, <<8473,8477>>, <<8484,8484>>,
    <<8486,8486>>, <<8488,8488>>, <<8490,8493>>, <<8495,8505>>, <<8508,8511>>, <<8517,8521>>,
    <<8526,8526>>, <<8528,8585>>, <<9312,9371>>, <<9450,9471>>, <<10102,10131>>, <<11264,11492>>,
    <<11499,11502>>, <<11506,11507>>, <<11517,11517>>, <<11520,11557>>, <<11559,11559>>, <<11565,11565>>,
    <<11568,11623>>, <<11631,11631>>, <<11648,11670>>, <<11680,11686>>, <<11688,11694>>, <<11696,11702>>,
    <<11704,11710>>, <<11712,11718>>, <<11720,11726>>, <<11728,11734>>, <<11736,11742>>, <<11823,11823>>,
    <<12293,12295>>, <<12321,12329>>, <<12337,12341>>, <<12344,12348>>, <<12353,12438>>, <<12445,12447>>,
    <<12449,12538>>, <<12540,12543>>, <<12549,12591>>, <<12593,12686>>, <<12690,12693>>, <<12704,12735>>,
    <<12784,12799>>, <<12832,12841>>, <<12872,12879>>, <<12881,12895>>, <<12928,12937>>, <<12977,12991>>,
    <<13312,19903>>, <<19968,42124>>, <<42192,42237>>, <<42240,42508>>, <<42512,42539>>, <<42560,42606>>,
    <<42623,42653>>, <<42656,42735>>, <<42775,42783>>, <<42786,42888>>, <<42891,42954>>, <<42960,42961>>,
    <<42963,42963>>, <<42965,42969>>, <<42994,43009>>, <<43011,43013>>, <<43015,43018>>, <<43020,43042>>,
    <<43056,43061>>, <<43072,43123>>, <<43138,43187>>, <<43216,43225>>, <<43250,43255>>, <<43259,43259>>,
    <<43261,43262>>, <<43264,43301>>, <<43312,43334>>, <<43360,43388>>, <<43396,43442>>, <<43471,43481>>,
    <<43488,43492>>, <<43494,43518>>, <<43520,43560>>, <<43584,43586>>, <<43588,43595>>, <<43600,43609>>,
    <<43616,43638>>, <<43642,43642>>, <<43646,43695>>, <<43697,43697>>, <<43701,43702>>, <<43705,43709>>,
    <<43712,43712>>, <<43714,43714>>, <<43739,43741>>, <<43744,43754>>, <<43762,43764>>, <<43777,43782>>,
    <<43785,43790>>, <<43793,43798>>, <<43808,43814>>, <<43816,43822>>, <<43824,43866>>, <<43868,43881>>,
    <<43888,44002>>, <<44016,44025>>, <<44032,55203>>, <<55216,55238>>, <<55243,55291>>, <<63744,64109>>,
    <<64112,64217>>, <<64256,64262>>, <<64275,64279>>, <<64285,64285>>, <<64287,64296>>, <<64298,64310>>,
    <<64312,64316>>, <<64318,64318>>, <<64320,64321>>, <<64323,64324>>, <<64326,64433>>, <<64467,64829>>,
    <<64848,64911>>, <<64914,64967>>, <<65008,65019>>, <<65136,65140>>, <<65142,65276>>, <<65296,65305>>,
    <<65313,65338>>, <<65345,65370>>, <<65382,65470>>, <<65474,65479>>, <<65482,65487>>, <<65490,65495>>,
    <<65498,65500>>, <<65536,65547>>, <<65549,65574>>, <<65576,65594>>, <<65596,65597>>, <<65599,65613>>,
    <<65616,65629>>, <<65664,65786>>, <<65799,65843>>, <<65856,65912>>, <<65930,65931>>, <<66176,66204>>,
    <<66208,66256>>, <<66273,66299>>, <<66304,66339>>, <<66349,66378>>, <<66384,66421>>, <<66432,66461>>,
    <<66464,66499>>, <<66504,66511>>, <<66513,66517>>, <<66560,66717>>, <<66720,66729>>, <<66736,66771>>,
    <<66776,66811>>, <<66816,66855>>, <<66864,66915>>, <<66928,66938>>, <<66940,66954>>, <<66956,66962>>,
    <<66964,66965>>, <<66967,66977>>, <<66979,66993>>, <<66995,67001>>, <<67003,67004>>, <<67072,67382>>,
    <<67392,67413>>, <<67424,67431>>, <<67456,67461>>, <<67463,67504>>, <<67506,67514>>, <<67584,67589>>,
    <<67592,67592>>, <<67594,67637>>, <<67639,67640>>, <<67644,67644>>, <<67647,67669>>, <<67672,67702>>,
    <<67705,67742>>, <<67751,67759>>, <<67808,67826>>, <<67828,67829>>, <<67835,67867>>, <<67872,67897>>,
    <<67968,68023>>, <<68028,68047>>, <<68050,68096>>, <<68112,68115>>, <<68117,68119>>, <<68121,68149>>,
    <<68160,68168>>, <<68192,68222>>, <<68224,68255>>, <<68288,68295>>, <<68297,68324>>, <<68331,68335>>,
    <<68352,68405>>, <<68416,68437>>, <<68440,68466>>, <<68472,68497>>, <<68521,68527>>, <<68608,68680>>,
    <<68736,68786>>, <<68800,68850>>, <<68858,68899>>, <<68912,68921>>, <<69216,69246>>, <<69248,69289>>,
    <<69296,69297>>, <<69376,69415>>, <<69424,69445>>, <<69457,69460>>, <<69488,69505>>, <<69552,69579>>,
    <<69600,69622>>, <<69635,69687>>, <<69714,69743>>, <<69745,69746>>, <<69749,69749>>, <<69763,69807>>,
    <<69840,69864>>, <<69872,69881>>, <<69891,69926>>, <<69942,69951>>, <<69956,69956>>, <<69959,69959>>,
    <<69968,70002>>, <<70006,70006>>, <<70019,70066>>, <<70081,70084>>, <<70096,70106>>, <<70108,70108>>,
    <<70113,70132>>, <<70144,70161>>, <<70163,70187>>, <<70272,70278>>, <<70280,70280>>, <<70282,70285>>,
    <<70287,70301>>, <<70303,70312>>, <<70320,70366>>, <<70384,70393>>, <<70405,70412>>, <<70415,70416>>,
    <<70419,70440>>, <<70442,70448>>, <<70450,70451>>, <<70453,70457>>, <<70461,70461>>, <<70480,70480>>,
    <<70493,70497>>, <<70656,70708>>, <<70727,70730>>, <<70736,70745>>, <<70751,70753>>, <<70784,70831>>,
    <<70852,70853>>, <<70855,70855>>, <<70864,70873>>, <<71040,71086>>, <<71128,71131>>, <<71168,71215>>,
    <<71236,71236>>, <<71248,71257>>, <<71296,71338>>, <<71352,71352>>, <<71360,71369>>, <<71424,71450>>,
    <<71472,71483>>, <<71488,71494>>, <<71680,71723>>, <<71840,71922>>, <<71935,71942>>, <<71945,71945>>,
    <<71948,71955>>, <<71957,71958>>, <<71960,71983>>, <<71999,71999>>, <<72001,72001>>, <<72016,72025>>,
    <<72096,72103>>, <<72106,72144>>, <<72161,72161>>, <<72163,72163>>, <<72192,72192>>, <<72203,72242>>,
    <<72250,72250>>, <<72272,72272>>, <<72284,72329>>, <<72349,72349>>, <<72368,72440>>, <<72704,72712>>,
    <<72714,72750>>, <<72768,72768>>, <<72784,72812>>, <<72818,72847>>, <<72960,72966>>, <<72968,72969>>,
    <<72971,73008>>, <<73030,73030>>, <<73040,73049>>, <<73056,73061>>, <<73063,73064>>, <<73066,73097>>,
    <<73112,73112>>, <<73120,73129>>, <<73440,73458>>, <<73648,73648>>, <<73664,73684>>, <<73728,74649>>,
    <<74752,74862>>, <<74880,75075>>, <<77712,77808>>, <<77824,78894>>, <<82944,83526>>, <<92160,92728>>,
    <<92736,92766>>, <<92768,92777>>, <<92784,92862>>, <<92864,92873>>, <<92880,92909>>, <<92928,92975>>,
    <<92992,92995>>, <<93008,93017>>, <<93019,93025>>, <<93027,93047>>, <<93053,93071>>, <<93760,93846>>,
    <<93952,94026>>, <<94032,94032>>, <<94099,94111>>, <<94176,94177>>, <<94179,94179>>, <<94208,100343>>,
    <<100352,101589>>, <<101632,101640>>, <<110576,110579>>, <<110581,110587>>, <<110589,110590>>, <<110592,110882>>,
    <<110928,110930>>, <<110948,110951>>, <<110960,111355>>, <<113664,113770>>, <<113776,113788>>, <<113792,113800>>,
    <<113808,113817>>, <<119520,119539>>, <<119648,119672>>, <<119808,119892>>, <<119894,119964>>, <<119966,119967>>,
    <<119970,119970>>, <<119973,119974>>, <<119977,119980>>, <<119982,119993>>, <<119995,119995>>, <<119997,120003>>,
    <<120005,120069>>, <<120071,120074>>, <<120077,120084>>, <<120086,120092>>, <<120094,120121>>, <<120123,120126>>,
    <<120128,120132>>, <<120134,120134>>, <<120138,120144>>, <<120146,120485>>, <<120488,120512>>, <<120514,120538>>,
    <<120540,120570>>, <<120572,120596>>, <<120598,120628>>, <<120630,120654>>, <<120656,120686>>, <<120688,120712>>,
    <<120714,120744>>, <<120746,120770>>, <<120772,120779>>, <<120782,120831>>, <<122624,122654>>, <<123136,123180>>,
    <<123191,123197>>, <<123200,123209>>, <<123214,123214>>, <<123536,123565>>, <<123584,123627>>, <<123632,123641>>,
    <<124896,124902>>, <<124904,124907>>, <<124909,124910>>, <<124912,124926>>, <<124928,125124>>, <<125127,125135>>,
    <<125184,125251>>, <<125259,125259>>, <<125264,125273>>, <<126065,126123>>, <<126125,126127>>, <<126129,126132>>,
    <<126209,126253>>, <<126255,126269>>, <<126464,126467>>, <<126469,126495>>, <<126497,126498>>, <<126500,126500>>,
    <<126503,126503>>, <<126505,126514>>, <<126516,126519>>, <<126521,126521>>, <<126523,126523>>, <<126530,126530>>,
    <<126535,126535>>, <<126537,126537>>, <<126539,126539>>, <<126541,126543>>, <<126545,126546>>, <<126548,126548>>,
    <<126551,126551>>, <<126553,126553>>, <<126555,126555>>, <<126557,126557>>, <<126559,126559>>, <<126561,126562>>,
    <<126564,126564>>, <<126567,126570>>, <<126572,126578>>, <<126580,126583>>, <<126585,126588>>, <<126590,126590>>,
    <<126592,126601>>, <<126603,126619>>, <<126625,126627>>, <<126629,126633>>, <<126635,126651>>, <<127232,127244>>,
    <<130032,130041>>, <<131072,173791>>, <<173824,177976>>, <<177984,178205>>, <<178208,183969>>, <<183984,191456>>,
    <<194560,195101>>, <<196608,201546>> >>

\* str.lower() where it maps one character to one other: <<first, last, step,
\* offset>> sends first, first+step, .. last to themselves plus offset
LowerRuns == <<
    <<65,90,1,32>>, <<192,214,1,32>>, <<216,222,1,32>>, <<256,302,2,1>>,
    <<306,310,2,1>>, <<313,327,2,1>>, <<330,374,2,1>>, <<376,376,1,-121>>,
    <<377,381,2,1>>, <<385,385,1,210>>, <<386,388,2,1>>, <<390,390,1,206>>,
    <<391,391,1,1>>, <<393,394,1,205>>, <<395,395,1,1>>, <<398,398,1,79>>,
    <<399,399,1,202>>, <<400,400,1,203>>, <<401,401,1,1>>, <<403,403,1,205>>,
    <<404,404,1,207>>, <<406,406,1,211>>, <<407,407,1,209>>, <<408,408,1,1>>,
    <<412,412,1,211>>, <<413,413,1,213>>, <<415,415,1,214>>, <<416,420,2,1>>,
    <<422,422,1,218>>, <<423,423,1,1>>, <<425,425,1,218>>, <<428,428,1,1>>,
    <<430,430,1,218>>, <<431,431,1,1>>, <<433,434,1,217>>, <<435,437,2,1>>,
    <<439,439,1,219>>, <<440,440,1,1>>, <<444,444,1,1>>, <<452,452,1,2>>,
    <<453,453,1,1>>, <<455,455,1,2>>, <<456,456,1,1>>, <<458,458,1,2>>,
    <<459,475,2,1>>, <<478,494,2,1>>, <<497,497,1,2>>, <<498,500,2,1>>,
    <<502,502,1,-97>>, <<503,503,1,-56>>, <<504,542,2,1>>, <<544,544,1,-130>>,
    <<546,562,2,1>>, <<570,570,1,10795>>, <<571,571,1,1>>, <<573,573,1,-163>>,
    <<574,574,1,10792>>, <<577,577,1,1>>, <<579,579,1,-195>>, <<580,580,1,69>>,
    <<581,581,1,71>>, <<582,590,2,1>>, <<880,882,2,1>>, <<886,886,1,1>>,
    <<895,895,1,116>>, <<902,902,1,38>>, <<904,906,1,37>>, <<908,908,1,64>>,
    <<910,911,1,63>>, <<913,929,1,32>>, <<932,939,1,32>>, <<975,975,1,8>>,
    <<984,1006,2,1>>, <<1012,1012,1,-60>>, <<1015,1015,1,1>>, <<1017,1017,1,-7>>,
    <<1018,1018,1,1>>, <<1021,1023,1,-130>>, <<1024,1039,1,80>>, <<1040,1071,1,32>>,
    <<1120,1152,2,1>>, <<1162,1214,2,1>>, <<1216,1216,1,15>>, <<1217,1229,2,1>>,
    <<1232,1326,2,1>>, <<1329,1366,1,48>>, <<4256,4293,1,7264>>, <<4295,4295,1,7264>>,
    <<4301,4301,1,7264>>, <<5024,5103,1,38864>>, <<5104,5109,1,8>>, <<7312,7354,1,-3008>>,
    <<7357,7359,1,-3008>>, <<7680,7828,2,1>>, <<7838,7838,1,-7615>>, <<7840,7934,2,1>>,
    <<7944,7951,1,-8>>, <<7960,7965,1,-8>>, <<7976,7983,1,-8>>, <<7992,7999,1,-8>>,
    <<8008,8013,1,-8>>, <<8025,8031,2,-8>>, <<8040,8047,1,-8>>, <<8072,8079,1,-8>>,
    <<8088,8095,1,-8>>, <<8104,8111,1,-8>>, <<8120,8121,1,-8>>, <<8122,8123,1,-74>>,
    <<8124,8124,1,-9>>, <<8136,8139,1,-86>>, <<8140,8140,1,-9>>, <<8152,8153,1,-8>>,
    <<8154,8155,1,-100>>, <<8168,8169,1,-8>>, <<8170,8171,1,-112>>, <<8172,8172,1,-7>>,
    <<8184,8185,1,-128>>, <<8186,8187,1,-126>>, <<8188,8188,1,-9>>, <<8486,8486,1,-7517>>,
    <<8490,8490,1,-8383>>, <<8491,8491,1,-8262>>, <<8498,8498,1,28>>, <<8544,8559,1,16>>,
    <<8579,8579,1,1>>, <<9398,9423,1,26>>, <<11264,11311,1,48>>, <<11360,11360,1,1>>,
    <<11362,11362,1,-10743>>, <<11363,11363,1,-3814>>, <<11364,11364,1,-10727>>, <<11367,11371,2,1>>,
    <<11373,11373,1,-10780>>, <<11374,11374,1,-10749>>, <<11375,11375,1,-10783>>, <<11376,11376,1,-10782>>,
    <<11378,11378,1,1>>, <<11381,11381,1,1>>, <<11390,11391,1,-10815>>, <<11392,11490,2,1>>,
    <<11499,11501,2,1>>, <<11506,11506,1,1>>, <<42560,42604,2,1>>, <<42624,42650,2,1>>,
    <<42786,42798,2,1>>, <<42802,42862,2,1>>, <<42873,42875,2,1>>, <<42877,42877,1,-35332>>,
    <<42878,42886,2,1>>, <<42891,42891,1,1>>, <<42893,42893,1,-42280>>, <<42896,42898,2,1>>,
    <<42902,42920,2,1>>, <<42922,42922,1,-42308>>, <<42923,42923,1,-42319>>, <<42924,42924,1,-42315>>,
    <<42925,42925,1,-42305>>, <<42926,42926,1,-42308>>, <<42928,42928,1,-42258>>, <<42929,42929,1,-42282>>,
    <<42930,42930,1,-42261>>, <<42931,42931,1,928>>, <<42932,42946,2,1>>, <<42948,42948,1,-48>>,
    <<42949,42949,1,-42307>>, <<42950,42950,1,-35384>>, <<42951,42953,2,1>>, <<42960,42960,1,1>>,
    <<42966,42968,2,1>>, <<42997,42997,1,1>>, <<65313,65338,1,32>>, <<66560,66599,1,40>>,
    <<66736,66771,1,40>>, <<66928,66938,1,39>>, <<66940,66954,1,39>>, <<66956,66962,1,39>>,
    <<66964,66965,1,39>>, <<68736,68786,1,64>>, <<71840,71871,1,32>>, <<93760,93791,1,32>>,
    <<125184,125217,1,34>> >>

\* the decimal digits (category Nd) as sorted ranges <<zero, nine>>
DecimalDigitRanges == <<
    <<48,57>>, <<1632,1641>>, <<1776,1785>>, <<1984,1993>>, <<2406,2415>>, <<2534,2543>>,
    <<2662,2671>>, <<2790,2799>>, <<2918,2927>>, <<3046,3055>>, <<3174,3183>>, <<3302,3311>>,
    <<3430,3439>>, <<3558,3567>>, <<3664,3673>>, <<3792,3801>>, <<3872,3881>>, <<4160,4169>>,
    <<4240,4249>>, <<6112,6121>>, <<6160,6169>>, <<6470,6479>>, <<6608,6617>>, <<6784,6793>>,
    <<6800,6809>>, <<6992,7001>>, <<7088,7097>>, <<7232,7241>>, <<7248,7257>>, <<42528,42537>>,
    <<43216,43225>>, <<43264,43273>>, <<43472,43481>>, <<43504,43513>>, <<43600,43609>>, <<44016,44025>>,
    <<65296,65305>>, <<66720,66729>>, <<68912,68921>>, <<69734,69743>>, <<69872,69881>>, <<69942,69951>>,
    <<70096,70105>>, <<70384,70393>>, <<70736,70745>>, <<70864,70873>>, <<71248,71257>>, <<71360,71369>>,
    <<71472,71481>>, <<71904,71913>>, <<72016,72025>>, <<72784,72793>>, <<73040,73049>>, <<73120,73129>>,
    <<92768,92777>>, <<92864,92873>>, <<93008,93017>>, <<120782,120791>>, <<120792,120801>>, <<120802,120811>>,
    <<120812,120821>>, <<120822,120831>>, <<123200,123209>>, <<123632,123641>>, <<125264,125273>>, <<130032,130041>> >>

\* the cased code points that are not case-ignorable, as sorted ranges
CasedRanges == <<
    <<65,90>>, <<97,122>>, <<170,170>>, <<181,181>>, <<186,186>>, <<192,214>>,
    <<216,246>>, <<248,442>>, <<444,447>>, <<452,659>>, <<661,687>>, <<880,883>>,
    <<886,887>>, <<891,893>>, <<895,895>>, <<902,902>>, <<904,906>>, <<908,908>>,
    <<910,929>>, <<931,1013>>, <<1015,1153>>, <<1162,1327>>, <<1329,1366>>, <<1376,1416>>,
    <<4256,4293>>, <<4295,4295>>, <<4301,4301>>, <<4304,4346>>, <<4349,4351>>, <<5024,5109>>,
    <<5112,5117>>, <<7296,7304>>, <<7312,7354>>, <<7357,7359>>, <<7424,7467>>, <<7531,7543>>,
    <<7545,7578>>, <<7680,7957>>, <<7960,7965>>, <<7968,8005>>, <<8008,8013>>, <<8016,8023>>,
    <<8025,8025>>, <<8027,8027>>, <<8029,8029>>, <<8031,8061>>, <<8064,8116>>, <<8118,8124>>,
    <<8126,8126>>, <<8130,8132>>, <<8134,8140>>, <<8144,8147>>, <<8150,8155>>, <<8160,8172>>,
    <<8178,8180>>, <<8182,8188>>, <<8450,8450>>, <<8455,8455>>, <<8458,8467>>, <<8469,8469>>,
    <<8473,8477>>, <<8484,8484>>, <<8486,8486>>, <<8488,8488>>, <<8490,8493>>, <<8495,8500>>,
    <<8505,8505>>, <<8508,8511>>, <<8517,8521>>, <<8526,8526>>, <<8544,8575>>, <<8579,8580>>,
    <<9398,9449>>, <<11264,11387>>, <<11390,11492>>, <<11499,11502>>, <<11506,11507>>, <<11520,11557>>,
    <<11559,11559>>, <<11565,11565>>, <<42560,42605>>, <<42624,42651>>, <<42786,42863>>, <<42865,42887>>,
    <<42891,42894>>, <<42896,42954>>, <<42960,42961>>, <<42963,42963>>, <<42965,42969>>, <<42997,42998>>,
    <<43002,43002>>, <<43824,43866>>, <<43872,43880>>, <<43888,43967>>, <<64256,64262>>, <<64275,64279>>,
    <<65313,65338>>, <<65345,65370>>, <<66560,66639>>, <<66736,66771>>, <<66776,66811>>, <<66928,66938>>,
    <<66940,66954>>, <<66956,66962>>, <<66964,66965>>, <<66967,66977>>, <<66979,66993>>, <<66995,67001>>,
    <<67003,67004>>, <<68736,68786>>, <<68800,68850>>, <<71840,71903>>, <<93760,93823>>, <<119808,119892>>,
    <<119894,119964>>, <<119966,119967>>, <<119970,119970>>, <<119973,119974>>, <<119977,119980>>, <<119982,119993>>,
    <<119995,119995>>, <<119997,120003>>, <<120005,120069>>, <<120071,120074>>, <<120077,120084>>, <<120086,120092>>,
    <<120094,120121>>, <<120123,120126>>, <<120128,120132>>, <<120134,120134>>, <<120138,120144>>, <<120146,120485>>,
    <<120488,120512>>, <<120514,120538>>, <<120540,120570>>, <<120572,120596>>, <<120598,120628>>, <<120630,120654>>,
    <<120656,120686>>, <<120688,120712>>, <<120714,120744>>, <<120746,120770>>, <<120772,120779>>, <<122624,122633>>,
    <<122635,122654>>, <<125184,125251>>, <<127280,127305>>, <<127312,127337>>, <<127344,127369>> >>

\* the case-ignorable code points, as sorted ranges
CaseIgnorableRanges == <<
    <<39,39>>, <<46,46>>, <<58,58>>, <<94,94>>, <<96,96>>, <<168,168>>,
    <<173,173>>, <<175,175>>, <<180,180>>, <<183,184>>, <<688,879>>, <<884,885>>,
    <<890,890>>, <<900,901>>, <<903,903>>, <<1155,1161>>, <<1369,1369>>, <<1375,1375>>,
    <<1425,1469>>, <<1471,1471>>, <<1473,1474>>, <<1476,1477>>, <<1479,1479>>, <<1524,1524>>,
    <<1536,1541>>, <<1552,1562>>, <<1564,1564>>, <<1600,1600>>, <<1611,1631>>, <<1648,1648>>,
    <<1750,1757>>, <<1759,1768>>, <<1770,1773>>, <<1807,1807>>, <<1809,1809>>, <<1840,1866>>,
    <<1958,1968>>, <<2027,2037>>, <<2042,2042>>, <<2045,2045>>, <<2070,2093>>, <<2137,2139>>,
    <<2184,2184>>, <<2192,2193>>, <<2200,2207>>, <<2249,2306>>, <<2362,2362>>, <<2364,2364>>,
    <<2369,2376>>, <<2381,2381>>, <<2385,2391>>, <<2402,2403>>, <<2417,2417>>, <<2433,2433>>,
    <<2492,2492>>, <<2497,2500>>, <<2509,2509>>, <<2530,2531>>, <<2558,2558>>, <<2561,2562>>,
    <<2620,2620>>, <<2625,2626>>, <<2631,2632>>, <<2635,2637>>, <<2641,2641>>, <<2672,2673>>,
    <<2677,2677>>, <<2689,2690>>, <<2748,2748>>, <<2753,2757>>, <<2759,2760>>, <<2765,2765>>,
    <<2786,2787>>, <<2810,2815>>, <<2817,2817>>, <<2876,2876>>, <<2879,2879>>, <<2881,2884>>,
    <<2893,2893>>, <<2901,2902>>, <<2914,2915>>, <<2946,2946>>, <<3008,3008>>, <<3021,3021>>,
    <<3072,3072>>, <<3076,3076>>, <<3132,3132>>, <<3134,3136>>, <<3142,3144>>, <<3146,3149>>,
    <<3157,3158>>, <<3170,3171>>, <<3201,3201>>, <<3260,3260>>, <<3263,3263>>, <<3270,3270>>,
    <<3276,3277>>, <<3298,3299>>, <<3328,3329>>, <<3387,3388>>, <<3393,3396>>, <<3405,3405>>,
    <<3426,3427>>, <<3457,3457>>, <<3530,3530>>, <<3538,3540>>, <<3542,3542>>, <<3633,3633>>,
    <<3636,3642>>, <<3654,3662>>, <<3761,3761>>, <<3764,3772>>, <<3782,3782>>, <<3784,3789>>,
    <<3864,3865>>, <<3893,3893>>, <<3895,3895>>, <<3897,3897>>, <<3953,3966>>, <<3968,3972>>,
    <<3974,3975>>, <<3981,3991>>, <<3993,4028>>, <<4038,4038>>, <<4141,4144>>, <<4146,4151>>,
    <<4153,4154>>, <<4157,4158>>, <<4184,4185>>, <<4190,4192>>, <<4209,4212>>, <<4226,4226>>,
    <<4229,4230>>, <<4237,4237>>, <<4253,4253>>, <<4348,4348>>, <<4957,4959>>, <<5906,5908>>,
    <<5938,5939>>, <<5970,5971>>, <<6002,6003>>, <<6068,6069>>, <<6071,6077>>, <<6086,6086>>,
    <<6089,6099>>, <<6103,6103>>, <<6109,6109>>, <<6155,6159>>, <<6211,6211>>, <<6277,6278>>,
    <<6313,6313>>, <<6432,6434>>, <<6439,6440>>, <<6450,6450>>, <<6457,6459>>, <<6679,6680>>,
    <<6683,6683>>, <<6742,6742>>, <<6744,6750>>, <<6752,6752>>, <<6754,6754>>, <<6757,6764>>,
    <<6771,6780>>, <<6783,6783>>, <<6823,6823>>, <<6832,6862>>, <<6912,6915>>, <<6964,6964>>,
    <<6966,6970>>, <<6972,6972>>, <<6978,6978>>, <<7019,7027>>, <<7040,7041>>, <<7074,7077>>,
    <<7080,7081>>, <<7083,7085>>, <<7142,7142>>, <<7144,7145>>, <<7149,7149>>, <<7151,7153>>,
    <<7212,7219>>, <<7222,7223>>, <<7288,7293>>, <<7376,7378>>, <<7380,7392>>, <<7394,7400>>,
    <<7405,7405>>, <<7412,7412>>, <<7416,7417>>, <<7468,7530>>, <<7544,7544>>, <<7579,7679>>,
    <<8125,8125>>, <<8127,8129>>, <<8141,8143>>, <<8157,8159>>, <<8173,8175>>, <<8189,8190>>,
    <<8203,8207>>, <<8216,8217>>, <<8228,8228>>, <<8231,8231>>, <<8234,8238>>, <<8288,8292>>,
    <<8294,8303>>, <<8305,8305>>, <<8319,8319>>, <<8336,8348>>, <<8400,8432>>, <<11388,11389>>,
    <<11503,11505>>, <<11631,11631>>, <<11647,11647>>, <<11744,11775>>, <<11823,11823>>, <<12293,12293>>,
    <<12330,12333>>, <<12337,12341>>, <<12347,12347>>, <<12441,12446>>, <<12540,12542>>, <<40981,40981>>,
    <<42232,42237>>, <<42508,42508>>, <<42607,42610>>, <<42612,42621>>, <<42623,42623>>, <<42652,42655>>,
    <<42736,42737>>, <<42752,42785>>, <<42864,42864>>, <<42888,42890>>, <<42994,42996>>, <<43000,43001>>,
    <<43010,43010>>, <<43014,43014>>, <<43019,43019>>, <<43045,43046>>, <<43052,43052>>, <<43204,43205>>,
    <<43232,43249>>, <<43263,43263>>, <<43302,43309>>, <<43335,43345>>, <<43392,43394>>, <<43443,43443>>,
    <<43446,43449>>, <<43452,43453>>, <<43471,43471>>, <<43493,43494>>, <<43561,43566>>, <<43569,43570>>,
    <<43573,43574>>, <<43587,43587>>, <<43596,43596>>, <<43632,43632>>, <<43644,43644>>, <<43696,43696>>,
    <<43698,43700>>, <<43703,43704>>, <<43710,43711>>, <<43713,43713>>, <<43741,43741>>, <<43756,43757>>,
    <<43763,43764>>, <<43766,43766>>, <<43867,43871>>, <<43881,43883>>, <<44005,44005>>, <<44008,44008>>,
    <<44013,44013>>, <<64286,64286>>, <<64434,64450>>, <<65024,65039>>, <<65043,65043>>, <<65056,65071>>,
    <<65106,65106>>, <<65109,65109>>, <<65279,65279>>, <<65287,65287>>, <<65294,65294>>, <<65306,65306>>,
    <<65342,65342>>, <<65344,65344>>, <<65392,65392>>, <<65438,65439>>, <<65507,65507>>, <<65529,65531>>,
    <<66045,66045>>, <<66272,66272>>, <<66422,66426>>, <<67456,67461>>, <<67463,67504>>, <<67506,67514>>,
    <<68097,68099>>, <<68101,68102>>, <<68108,68111>>, <<68152,68154>>, <<68159,68159>>, <<68325,68326>>,
    <<68900,68903>>, <<69291,69292>>, <<69446,69456>>, <<69506,69509>>, <<69633,69633>>, <<69688,69702>>,
    <<69744,69744>>, <<69747,69748>>, <<69759,69761>>, <<69811,69814>>, <<69817,69818>>, <<69821,69821>>,
    <<69826,69826>>, <<69837,69837>>, <<69888,69890>>, <<69927,69931>>, <<69933,69940>>, <<70003,70003>>,
    <<70016,70017>>, <<70070,70078>>, <<70089,70092>>, <<70095,70095>>, <<70191,70193>>, <<70196,70196>>,
    <<70198,70199>>, <<70206,70206>>, <<70367,70367>>, <<70371,70378>>, <<70400,70401>>, <<70459,70460>>,
    <<70464,70464>>, <<70502,70508>>, <<70512,70516>>, <<70712,70719>>, <<70722,70724>>, <<70726,70726>>,
    <<70750,70750>>, <<70835,70840>>, <<70842,70842>>, <<70847,70848>>, <<70850,70851>>, <<71090,71093>>,
    <<71100,71101>>, <<71103,71104>>, <<71132,71133>>, <<71219,71226>>, <<71229,71229>>, <<71231,71232>>,
    <<71339,71339>>, <<71341,71341>>, <<71344,71349>>, <<71351,71351>>, <<71453,71455>>, <<71458,71461>>,
    <<71463,71467>>, <<71727,71735>>, <<71737,71738>>, <<71995,71996>>, <<71998,71998>>, <<72003,72003>>,
    <<72148,72151>>, <<72154,72155>>, <<72160,72160>>, <<72193,72202>>, <<72243,72248>>, <<72251,72254>>,
    <<72263,72263>>, <<72273,72278>>, <<72281,72283>>, <<72330,72342>>, <<72344,72345>>, <<72752,72758>>,
    <<72760,72765>>, <<72767,72767>>, <<72850,72871>>, <<72874,72880>>, <<72882,72883>>, <<72885,72886>>,
    <<73009,73014>>, <<73018,73018>>, <<73020,73021>>, <<73023,73029>>, <<73031,73031>>, <<73104,73105>>,
    <<73109,73109>>, <<73111,73111>>, <<73459,73460>>, <<78896,78904>>, <<92912,92916>>, <<92976,92982>>,
    <<92992,92995>>, <<94031,94031>>, <<94095,94111>>, <<94176,94177>>, <<94179,94180>>, <<110576,110579>>,
    <<110581,110587>>, <<110589,110590>>, <<113821,113822>>, <<113824,113827>>, <<118528,118573>>, <<118576,118598>>,
    <<119143,119145>>, <<119155,119170>>, <<119173,119179>>, <<119210,119213>>, <<119362,119364>>, <<121344,121398>>,
    <<121403,121452>>, <<121461,121461>>, <<121476,121476>>, <<121499,121503>>, <<121505,121519>>, <<122880,122886>>,
    <<122888,122904>>, <<122907,122913>>, <<122915,122916>>, <<122918,122922>>, <<123184,123197>>, <<123566,123566>>,
    <<123628,123631>>, <<125136,125142>>, <<125252,125259>>, <<127995,127999>>, <<917505,917505>>, <<917536,917631>>,
    <<917760,917999>> >>


\* the regex class [가-힣]: U+AC00 .. U+D7A3
IsHangul(c) == CodePoint(c) \in 44032..55203

IsLatinUpper(c) == CodePoint(c) \in 65..90
IsLatinLower(c) == CodePoint(c) \in 97..122
IsAsciiDigit(c) == CodePoint(c) \in 48..57

\* the regex class [가-힣a-zA-Z0-9]
IsKeywordCode(n) == n \in 44032..55203 \/ n \in 97..122 \/ n \in 65..90 \/ n \in 48..57

IsKeywordChar(c) == IsKeywordCode(CodePoint(c))

\* the regex class \w of a str pattern
IsWordCode(n) ==
    IF n < 128 THEN n \in 48..57 \/ n \in 65..90 \/ n = 95 \/ n \in 97..122
    ELSE InRanges(WordRanges, n)

IsWordChar(c) == IsWordCode(CodePoint(c))

\* membership in one of the character classes the services' patterns use
InClass(cls, c) ==
    CASE cls = "hangul" -> IsHangul(c)
      [] cls = "keyword" -> IsKeywordChar(c)
      [] cls = "word" -> IsWordChar(c)

\* the code point str.lower() maps code point n to, for the characters it
\* maps to one character whatever their context
LowerCodeInRow(runs, r, n) ==
    IF r > 0 /\ n <= runs[r][2] /\ (n - runs[r][1]) % runs[r][3] = 0
    THEN n + runs[r][4]
    ELSE n

LowerCodeIn(runs, n) == LowerCodeInRow(runs, RowAtOrBelow(runs, n, 1, Len(runs)), n)

LowerCode(n) == LowerCodeIn(LowerRuns, n)

\* the first position from i on, stepping by d, whose character is not
\* case-ignorable (0 or Len(t) + 1 when there is none)
RECURSIVE SkipCaseIgnorable(_, _, _)
SkipCaseIgnorable(t, i, d) ==
    IF i < 1 \/ i > Len(t) \/ ~InRanges(CaseIgnorableRanges, CodePoint(t[i])) THEN i
    ELSE SkipCaseIgnorable(t, i + d, d)

\* whether the capital sigma at t[i] ends a word: a cased character before it
\* and none after it, case-ignorable characters skipped
IsCased(c) == InRanges(CasedRanges, CodePoint(c))

\* before and after are the nearest positions on the two sides of the sigma
\* whose characters are not case-ignorable
FinalSigmaBetween(t, before, after) ==
    /\ before >= 1
    /\ IsCased(t[before])
    /\ after > Len(t) \/ ~IsCased(t[after])

FinalSigma(t, i) ==
    FinalSigmaBetween(t, SkipCaseIgnorable(t, i - 1, 0 - 1), SkipCaseIgnorable(t, i + 1, 1))

\* what str.lower() puts in the place of t[i]
CharOrSame(c, n, lower) == IF lower = n THEN <<c>> ELSE <<Char(lower)>>

\* n is the code point of t[i]
LowerOfCode(t, i, n) ==
    IF n < 128 THEN <<IF n \in 65..90 THEN Char(n + 32) ELSE t[i]>>
    ELSE IF n \in 44032..55203 THEN <<t[i]>>
    ELSE IF n = 304 THEN <<"i", "u0307">>
    ELSE IF n = 931 THEN <<IF FinalSigma(t, i) THEN "u03C2" ELSE "u03C3">>
    ELSE CharOrSame(t[i], n, LowerCode(n))

LowerChar(t, i) == LowerOfCode(t, i, CodePoint(t[i]))

RECURSIVE LowerFrom(_, _)
LowerFrom(t, i) == IF i > Len(t) THEN <<>> ELSE LowerChar(t, i) \o LowerFrom(t, i + 1)

\* str.lower()
Lower(t) == LowerFrom(t, 1)

\* first index at or after i whose character is outside the class cls
\* (Len(t) + 1 if none)
RECURSIVE RunEnd(_, _, _)
RunEnd(t, i, cls) ==
    IF i > Len(t) \/ ~InClass(cls, t[i]) THEN i ELSE RunEnd(t, i + 1, cls)

\* re.findall(r'[cls]{min,}', t) scanning from index i: the maximal runs of
\* characters of the class, of length >= min, left to right
RECURSIVE FindRuns(_, _, _, _)
RECURSIVE RunThenRuns(_, _, _, _, _)
FindRuns(t, i, cls, min) ==
    IF i > Len(t) THEN <<>> ELSE RunThenRuns(t, i, cls, min, RunEnd(t, i, cls))

\* the run from i ends before j
RunThenRuns(t, i, cls, min, j) ==
    IF j - i >= min
    THEN <<SubSeq(t, i, j - 1)>> \o FindRuns(t, j, cls, min)
    ELSE FindRuns(t, IF j = i THEN i + 1 ELSE j, cls, min)

\* Python's `needle in haystack` on strings
Contains(hay, needle) ==
    \E i \in 1..(Len(hay) - Len(needle) + 1) :
        \A j \in 1..Len(needle) : hay[i + j - 1] = needle[j]


(***************************************************************************)
(* main.py: the text keyword extractor                                     *)
(***************************************************************************)
stop_words == {
    <<"t","h","e">>,   \* the
    <<"a","n","d">>,   \* and
    <<"o","r">>,   \* or
    <<"b","u","t">>,   \* but
    <<"i","n">>,   \* in
    <<"o","n">>,   \* on
    <<"a","t">>,   \* at
    <<"t","o">>,   \* to
    <<"f","o","r">>,   \* for
    <<"o","f">>,   \* of
    <<"w","i","t","h">>,   \* with
    <<"b","y">>,   \* by
    <<"uC774">>,   \* 이
    <<"uADF8">>,   \* 그
    <<"uC800">>,   \* 저
    <<"uAC83">>,   \* 것
    <<"uC218">>,   \* 수
    <<"uB4F1">>,   \* 등
    <<"uBC0F">>,   \* 및
    <<"uB610","uB294">>,   \* 또는
    <<"uADF8","uB9AC","uACE0">>,   \* 그리고
    <<"uD558","uC9C0","uB9CC">>,   \* 하지만
    <<"uC5D0","uC11C">>,   \* 에서
    <<"uC73C","uB85C">>,   \* 으로
    <<"uC5D0","uAC8C">>,   \* 에게
    <<"uB97C">>,   \* 를
    <<"uC744">>    \* 을
    }

\* the extractor without the stop-word filter
ExtractKeywordsKeepingStopWords(text) ==
    IF text = <<>> THEN <<>>
    ELSE SelectSeq(FindRuns(Lower(text), 1, "keyword", 2), LAMBDA kw : kw[1] # "#")

extract_keywords_from_text(text) ==
    IF text = <<>> THEN <<>>
    ELSE SelectSeq(FindRuns(Lower(text), 1, "keyword", 2),
                   LAMBDA kw : kw[1] # "#" /\ kw \notin stop_words)

(***************************************************************************)
(* main.py: extract_trending_keywords                                      *)
(***************************************************************************)
\* f"{trend.title} {trend.description or ''}"
TrendText(trend) == trend.title \o <<" ">> \o OrElse(trend.description, <<>>)

\* a TrendResponse, projected on the fields the aggregation and the analyses read
Trend(title, description, view_count) ==
    [title |-> title, description |-> description, view_count |-> view_count,
     like_count |-> None, comment_count |-> None, share_count |-> None,
     tags |-> None, hashtags |-> None, category |-> None, published_at |-> None]

AggRecords ==
    { Trend(<<"g","a","m","e">>, None, Some(1000)),
      Trend(<<"G","a","m","e"," ","g","a","m","e">>, Some(<<>>), Some(1000)),
      Trend(<<"t","h","e"," ","t","o">>, Some(<<"g","a","m","e"," ","o","n">>), None),
      Trend(<<"g","o">>, Some(<<"x"," ","g","o"," ","2","x">>), Some(2500)),
      Trend(<<>>, None, Some(999)),
      Trend(<<"uAC74","uAC15","#","f","u","n">>, None, Some(1000)) }   \* 건강#fun

\* the keywords of the text of each of these records, computed once
RecordKeywords == [r \in AggRecords |-> extract_keywords_from_text(TrendText(r))]

\* extract_keywords_from_text(text) for the text of a record
KeywordsOfRecord(trend) ==
    IF trend \in AggRecords THEN RecordKeywords[trend]
    ELSE extract_keywords_from_text(TrendText(trend))

\* one pass of the body of `for keyword in keywords`: keyword_scores is kept as
\* the sequence of its entries in insertion order (a Python dict's order)
AddKeyword(ks, kw, views, platform) ==
    IF \E i \in 1..Len(ks) : ks[i].keyword = kw
    THEN [i \in 1..Len(ks) |->
            IF ks[i].keyword = kw
            THEN [ks[i] EXCEPT !.count = @ + 1,
                               !.total_views = @ + views,
                               !.platforms = @ \cup {platform}]
            ELSE ks[i]]
    ELSE Append(ks, [keyword |-> kw, count |-> 1, total_views |-> views,
                     platforms |-> {platform}])

RECURSIVE AddKeywords(_, _, _, _)
AddKeywords(ks, kws, views, platform) ==
    IF kws = <<>> THEN ks
    ELSE AddKeywords(AddKeyword(ks, kws[1], views, platform), Tail(kws), views, platform)

\* one `for trend in <platform>_trends` loop
RECURSIVE AddTrends(_, _, _)
AddTrends(ks, trends, platform) ==
    IF trends = <<>> THEN ks
    ELSE AddTrends(AddKeywords(ks, KeywordsOfRecord(trends[1]),
                               OrElse(trends[1].view_count, 0), platform),
                   Tail(trends), platform)

TrendingScoreWide(data) ==
    (data.count * 10) + (data.total_views \div 1000) + (Cardinality(data.platforms) * 10)

\* (count * 10) + (total_views // 1000) + (len(platforms) * 5)
TrendingScore(data) ==
    (data.count * 10) + (data.total_views \div 1000) + (Cardinality(data.platforms) * 5)

ScoredKeyword(data) ==
    [keyword |-> data.keyword, trending_score |-> TrendingScore(data),
     count |-> data.count, total_views |-> data.total_views,
     platforms |-> data.platforms, platform_count |-> Cardinality(data.platforms)]

\* an insertion that puts e before the entries of equal score (not stable)
InsertByScoreBeforeEqual(sorted, e) ==
    LET k == Cardinality({i \in 1..Len(sorted) : sorted[i].trending_score > e.trending_score})
    IN  SubSeq(sorted, 1, k) \o <<e>> \o SubSeq(sorted, k + 1, Len(sorted))

\* list.sort(key=trending_score, reverse=True) is stable: e goes after every
\* entry whose score is >= its own
InsertByScore(sorted, e) ==
    LET k == Cardinality({i \in 1..Len(sorted) : sorted[i].trending_score >= e.trending_score})
    IN  SubSeq(sorted, 1, k) \o <<e>> \o SubSeq(sorted, k + 1, Len(sorted))

RECURSIVE SortByTrendingScore(_, _)
SortByTrendingScore(sorted, rest) ==
    IF rest = <<>> THEN sorted
    ELSE SortByTrendingScore(InsertByScore(sorted, rest[1]), Tail(rest))

keyword_scores(youtube_trends, tiktok_trends, instagram_trends) ==
    AddTrends(AddTrends(AddTrends(<<>>, youtube_trends, "youtube"),
                        tiktok_trends, "tiktok"),
              instagram_trends, "instagram")

extract_trending_keywords(youtube_trends, tiktok_trends, instagram_trends) ==
    LET ks == keyword_scores(youtube_trends, tiktok_trends, instagram_trends)
    IN  SortByTrendingScore(<<>>, [i \in 1..Len(ks) |-> ScoredKeyword(ks[i])])

(***************************************************************************)
(* The platform collaborators as the facade sees them: a call answers with *)
(* a batch of records or raises.                                           *)
(***************************************************************************)
MaxRecords == 3

SeqsUpTo(S, n) == UNION {[1..k -> S] : k \in 0..n}

Answered(items) == [status |-> "ok", items |-> items]
Raised == [status |-> "raised", items |-> <<>>]
\* a failure of a search().list followed by a videos().list: the call that raised
RaisedAt(api) == [status |-> "raised", items |-> <<>>, at |-> api]
NotCalled == [status |-> "not_called", items |-> <<>>]

\* The three awaited calls of a facade handler, in the order youtube, tiktok,
\* instagram: the first call that raises ends the try block, and the later
\* collaborators are not called.
CollaboratorAnswers ==
    { [youtube |-> Answered(SubSeq(all, 1, a)),
       tiktok |-> Answered(SubSeq(all, a + 1, b)),
       instagram |-> Answered(SubSeq(all, b + 1, Len(all)))] :
         <<all, a, b>> \in { x \in SeqsUpTo(AggRecords, MaxRecords) \X (0..MaxRecords) \X (0..MaxRecords) :
                              x[2] <= x[3] /\ x[3] <= Len(x[1]) } }
    \cup
    { [youtube |-> Raised, tiktok |-> NotCalled, instagram |-> NotCalled] }
    \cup
    { [youtube |-> Answered(yt), tiktok |-> Raised, instagram |-> NotCalled] :
         yt \in SeqsUpTo(AggRecords, 1) }
    \cup
    { [youtube |-> Answered(yt), tiktok |-> Answered(<<>>), instagram |-> Raised] :
         yt \in SeqsUpTo(AggRecords, 1) }

AllAnswered(in) ==
    in.youtube.status = "ok" /\ in.tiktok.status = "ok" /\ in.instagram.status = "ok"

KeywordLimits == {1, 50}

NoResponse ==
    [op |-> "none", status |-> 0, trending_keywords |-> <<>>,
     total_keywords |-> 0, total_trends |-> 0]

\* the HTTPException(status_code=500) of a handler's except clause
ServerError(op) ==
    [op |-> op, status |-> 500, trending_keywords |-> <<>>,
     total_keywords |-> 0, total_trends |-> 0]

\* GET /api/trends/keywords
get_trending_keywords(max_results, in) ==
    /\ IF AllAnswered(in)
       THEN LET trending_keywords ==
                    extract_trending_keywords(in.youtube.items, in.tiktok.items,
                                              in.instagram.items)
            IN  /\ ranked' = trending_keywords
                /\ aggOut' = [op |-> "keywords", status |-> 200,
                              trending_keywords |-> Take(trending_keywords, max_results),
                              total_keywords |-> Len(trending_keywords),
                              total_trends |-> 0]
       ELSE /\ ranked' = <<>>
            /\ aggOut' = ServerError("keywords")

\* GET /api/trends/realtime
get_realtime_trends(in) ==
    /\ IF AllAnswered(in)
       THEN LET trending_keywords ==
                    extract_trending_keywords(in.youtube.items, in.tiktok.items,
                                              in.instagram.items)
            IN  /\ ranked' = trending_keywords
                /\ aggOut' = [op |-> "realtime", status |-> 200,
                              trending_keywords |-> trending_keywords,
                              total_keywords |-> Len(trending_keywords),
                              total_trends |-> Len(in.youtube.items) + Len(in.tiktok.items)
                                               + Len(in.instagram.items)]
       ELSE /\ ranked' = <<>>
            /\ aggOut' = ServerError("realtime")


(***************************************************************************)
(* Properties of the aggregator, stated from the batches the handler read  *)
(***************************************************************************)
\* the records in the order the aggregator processes them
ProcessedRecords == aggIn.youtube.items \o aggIn.tiktok.items \o aggIn.instagram.items

RECURSIVE KeywordStream(_)
KeywordStream(recs) ==
    IF recs = <<>> THEN <<>>
    ELSE KeywordsOfRecord(recs[1]) \o KeywordStream(Tail(recs))

Occurrences(kw, r) ==
    LET keywords == KeywordsOfRecord(r)
    IN  Cardinality({i \in 1..Len(keywords) : keywords[i] = kw})

RecordsWith(kw) == SelectSeq(ProcessedRecords, LAMBDA r : Occurrences(kw, r) >= 1)

ViewsOf(recs) == SumSeq([i \in 1..Len(recs) |-> OrElse(recs[i].view_count, 0)])

FirstSeen(kw) ==
    LET stream == KeywordStream(ProcessedRecords)
    IN  CHOOSE i \in 1..Len(stream) :
            /\ stream[i] = kw
            /\ \A j \in 1..(i - 1) : stream[j] # kw

\* integer division truncating toward zero
TruncDiv(a, b) == IF a >= 0 THEN a \div b ELSE -((-a) \div b)

Game == <<"g","a","m","e">>

\* C1: a keyword's occurrence_count is the number of records whose
\* title+description text contains it at least once, and cumulative_view_count
\* adds each such record's view_count exactly once, however often the keyword
\* is repeated inside one record.
C1_CountIsPerRecord ==
    aggOut.status = 200 =>
        \A i \in 1..Len(ranked) :
            /\ ranked[i].count = Len(RecordsWith(ranked[i].keyword))
            /\ ranked[i].total_views = ViewsOf(RecordsWith(ranked[i].keyword))

\* C2: every ranked keyword has trending_score = count*10 + total_views
\* integer-divided by 1000 + 5 per platform, a null view_count adding 0; three
\* records on three platforms, each with the keyword once and 1000 views, give
\* count 3, 3000 views, three platforms and score 48.
C2_TrendingScoreFormula ==
    aggOut.status = 200 =>
        /\ \A i \in 1..Len(ranked) :
              /\ ranked[i].trending_score =
                     ranked[i].count * 10 + TruncDiv(ranked[i].total_views, 1000)
                     + Cardinality(ranked[i].platforms) * 5
              /\ (\A j \in 1..Len(ProcessedRecords) :
                      Occurrences(ranked[i].keyword, ProcessedRecords[j]) <= 1)
                  => ranked[i].total_views = ViewsOf(RecordsWith(ranked[i].keyword))
        /\ (\A p \in {"youtube", "tiktok", "instagram"} :
                /\ Len(aggIn[p].items) = 1
                /\ Occurrences(Game, aggIn[p].items[1]) = 1
                /\ aggIn[p].items[1].view_count = Some(1000))
           => \E i \in 1..Len(ranked) :
                 /\ ranked[i].keyword = Game
                 /\ ranked[i].count = 3
                 /\ ranked[i].total_views = 3000
                 /\ ranked[i].platforms = {"youtube", "tiktok", "instagram"}
                 /\ ranked[i].trending_score = 48

C2_Witness ==
    /\ aggOut.status = 200
    /\ \A p \in {"youtube", "tiktok", "instagram"} :
          /\ Len(aggIn[p].items) = 1
          /\ Occurrences(Game, aggIn[p].items[1]) = 1
          /\ aggIn[p].items[1].view_count = Some(1000)
    /\ \E i \in 1..Len(ranked) : ranked[i].keyword = Game /\ ranked[i].trending_score = 48

\* C3: the output is sorted by trending_score in non-increasing order, keywords
\* of equal score appear in first-seen order, and the output holds every
\* distinct extracted keyword exactly once.
C3_SortedStableComplete ==
    aggOut.status = 200 =>
        /\ \A i, j \in 1..Len(ranked) :
              i < j =>
                /\ ranked[i].trending_score >= ranked[j].trending_score
                /\ ranked[i].trending_score = ranked[j].trending_score
                     => FirstSeen(ranked[i].keyword) < FirstSeen(ranked[j].keyword)
        /\ LET stream == KeywordStream(ProcessedRecords)
           IN  {ranked[i].keyword : i \in 1..Len(ranked)}
                   = {stream[i] : i \in 1..Len(stream)}
        /\ \A i, j \in 1..Len(ranked) : ranked[i].keyword = ranked[j].keyword => i = j

C3_Witness ==
    /\ aggOut.status = 200
    /\ Len(ranked) >= 3
    /\ \E i, j \in 1..Len(ranked) :
          /\ i < j
          /\ ranked[i].trending_score = ranked[j].trending_score
          /\ ranked[j].trending_score > ranked[Len(ranked)].trending_score

\* C4: when the collaborator call of one platform fails, a multi-platform
\* aggregation does not fail: the failed platform's batch counts as empty and
\* the result is computed from the batches of the other platforms.
C4_OneFailureIsTolerated ==
    (aggOut.op # "none" /\ \E p \in {"youtube", "tiktok", "instagram"} :
                               aggIn[p].status = "raised")
    => /\ aggOut.status = 200
       /\ ranked = extract_trending_keywords(aggIn.youtube.items, aggIn.tiktok.items,
                                             aggIn.instagram.items)

(***************************************************************************)
(* age_analysis_service.py: the static configuration of AgeAnalysisService *)
(* Age groups: "10s" is 10대, "20s" 20대, "30s" 30대, "40s" 40대, "50s+" 50대+.  *)
(* A weight is the double its decimal literal denotes.                     *)
(***************************************************************************)
AgeGroups == <<"10s", "20s", "30s", "40s", "50s+">>

age_group_patterns ==
    ( "10s" :> [weight |-> FRatio(10, 10),
        platforms |-> <<"tiktok", "youtube", "instagram">>,
        keywords |-> <<
            <<"uAC8C","uC784">>,   \* 게임
            <<"uC560","uB2C8","uBA54","uC774","uC158">>,   \* 애니메이션
            <<"uB9CC","uD654">>,   \* 만화
            <<"uC544","uC774","uB3CC">>,   \* 아이돌
            <<"K","-","p","o","p">>,   \* K-pop
            <<"uB304","uC2A4">>,   \* 댄스
            <<"uD2F1","uD1A1">>,   \* 틱톡
            <<"uC720","uD29C","uBE0C">>,   \* 유튜브
            <<"uC2A4","uD2B8","uB9AC","uBC0D">>,   \* 스트리밍
            <<"uCF54","uC2A4","uD504","uB808">>,   \* 코스프레
            <<"uD32C","uC544","uD2B8">>,   \* 팬아트
            <<"uD32C","uD53D">>,   \* 팬픽
            <<"uCE90","uB9AD","uD130">>,   \* 캐릭터
            <<"uC2A4","uD0A8","uCF00","uC5B4">>,   \* 스킨케어
            <<"uBA54","uC774","uD06C","uC5C5">>,   \* 메이크업
            <<"uD328","uC158">>,   \* 패션
            <<"uC2A4","uB2C8","uCEE4","uC988">>,   \* 스니커즈
            <<"uBC31","uD329">>,   \* 백팩
            <<"uD559","uC6D0">>,   \* 학원
            <<"uC218","uB2A5">>,   \* 수능
            <<"uC785","uC2DC">>,   \* 입시
            <<"uB300","uD559">>,   \* 대학
            <<"uACE0","uB4F1","uD559","uAD50">>,   \* 고등학교
            <<"uC911","uD559","uAD50">>,   \* 중학교
            <<"uCE5C","uAD6C">>,   \* 친구
            <<"uC5F0","uC560">>    \* 연애
        >>]
    @@ "20s" :> [weight |-> FRatio(12, 10),
        platforms |-> <<"instagram", "youtube", "tiktok">>,
        keywords |-> <<
            <<"uCDE8","uC5C5">>,   \* 취업
            <<"uC774","uB825","uC11C">>,   \* 이력서
            <<"uBA74","uC811">>,   \* 면접
            <<"uC2A4","uD0C0","uD2B8","uC5C5">>,   \* 스타트업
            <<"uCC3D","uC5C5">>,   \* 창업
            <<"uD22C","uC790">>,   \* 투자
            <<"uC8FC","uC2DD">>,   \* 주식
            <<"uBD80","uB3D9","uC0B0">>,   \* 부동산
            <<"uC9D1">>,   \* 집
            <<"uC6D4","uC138">>,   \* 월세
            <<"uC804","uC138">>,   \* 전세
            <<"uB300","uCD9C">>,   \* 대출
            <<"uCE74","uB4DC">>,   \* 카드
            <<"uC801","uAE08">>,   \* 적금
            <<"uC5F0","uBD09">>,   \* 연봉
            <<"uAE09","uC5EC">>,   \* 급여
            <<"uC138","uAE08">>,   \* 세금
            <<"uC5F0","uB9D0","uC815","uC0B0">>,   \* 연말정산
            <<"uBCF5","uC9C0">>,   \* 복지
            <<"uD734","uAC00">>,   \* 휴가
            <<"uC5EC","uD589">>,   \* 여행
            <<"uB9DB","uC9D1">>,   \* 맛집
            <<"uCE74","uD398">>,   \* 카페
            <<"uC220","uC9D1">>,   \* 술집
            <<"uD074","uB7FD">>,   \* 클럽
            <<"uB370","uC774","uD2B8">>,   \* 데이트
            <<"uC5F0","uC560">>,   \* 연애
            <<"uACB0","uD63C">>,   \* 결혼
            <<"uC6E8","uB529">>,   \* 웨딩
            <<"uC2E0","uD63C">>,   \* 신혼
            <<"uC721","uC544">>,   \* 육아
            <<"uC721","uC544","uB9D8">>,   \* 육아맘
            <<"uC721","uC544","uB9D8","uBE14","uB85C","uADF8">>    \* 육아맘블로그
        >>]
    @@ "30s" :> [weight |-> FRatio(11, 10),
        platforms |-> <<"youtube", "instagram", "tiktok">>,
        keywords |-> <<
            <<"uACB0","uD63C">>,   \* 결혼
            <<"uC721","uC544">>,   \* 육아
            <<"uC544","uC774">>,   \* 아이
            <<"uC720","uCE58","uC6D0">>,   \* 유치원
            <<"uCD08","uB4F1","uD559","uAD50">>,   \* 초등학교
            <<"uD559","uC6D0">>,   \* 학원
            <<"uACFC","uC678">>,   \* 과외
            <<"uC9D1">>,   \* 집
            <<"uC544","uD30C","uD2B8">>,   \* 아파트
            <<"uBD84","uC591">>,   \* 분양
            <<"uC778","uD14C","uB9AC","uC5B4">>,   \* 인테리어
            <<"uAC00","uC804","uC81C","uD488">>,   \* 가전제품
            <<"uAC00","uAD6C">>,   \* 가구
            <<"uCC28">>,   \* 차
            <<"uC790","uB3D9","uCC28">>,   \* 자동차
            <<"uBCF4","uD5D8">>,   \* 보험
            <<"uD22C","uC790">>,   \* 투자
            <<"uD380","uB4DC">>,   \* 펀드
            <<"uC5F0","uAE08">>,   \* 연금
            <<"uC740","uD1F4">>,   \* 은퇴
            <<"uAC74","uAC15">>,   \* 건강
            <<"uC6B4","uB3D9">>,   \* 운동
            <<"uB2E4","uC774","uC5B4","uD2B8">>,   \* 다이어트
            <<"uC694","uB9AC">>,   \* 요리
            <<"uBCA0","uC774","uD0B9">>,   \* 베이킹
            <<"uAC00","uB4DC","uB2DD">>,   \* 가드닝
            <<"uCDE8","uBBF8">>,   \* 취미
            <<"uB3C5","uC11C">>,   \* 독서
            <<"uC601","uD654">>,   \* 영화
            <<"uB4DC","uB77C","uB9C8">>,   \* 드라마
            <<"uB137","uD50C","uB9AD","uC2A4">>,   \* 넷플릭스
            <<"O","T","T">>    \* OTT
        >>]
    @@ "40s" :> [weight |-> FRatio(9, 10),
        platforms |-> <<"youtube", "instagram">>,
        keywords |-> <<
            <<"uAC74","uAC15">>,   \* 건강
            <<"uC6B4","uB3D9">>,   \* 운동
            <<"uB2E4","uC774","uC5B4","uD2B8">>,   \* 다이어트
            <<"uC694","uB9AC">>,   \* 요리
            <<"uBCA0","uC774","uD0B9">>,   \* 베이킹
            <<"uAC00","uB4DC","uB2DD">>,   \* 가드닝
            <<"uCDE8","uBBF8">>,   \* 취미
            <<"uB3C5","uC11C">>,   \* 독서
            <<"uC601","uD654">>,   \* 영화
            <<"uB4DC","uB77C","uB9C8">>,   \* 드라마
            <<"uB137","uD50C","uB9AD","uC2A4">>,   \* 넷플릭스
            <<"O","T","T">>,   \* OTT
            <<"uC9D1">>,   \* 집
            <<"uC544","uD30C","uD2B8">>,   \* 아파트
            <<"uBD84","uC591">>,   \* 분양
            <<"uC778","uD14C","uB9AC","uC5B4">>,   \* 인테리어
            <<"uAC00","uC804","uC81C","uD488">>,   \* 가전제품
            <<"uAC00","uAD6C">>,   \* 가구
            <<"uCC28">>,   \* 차
            <<"uC790","uB3D9","uCC28">>,   \* 자동차
            <<"uBCF4","uD5D8">>,   \* 보험
            <<"uD22C","uC790">>,   \* 투자
            <<"uD380","uB4DC">>,   \* 펀드
            <<"uC5F0","uAE08">>,   \* 연금
            <<"uC740","uD1F4">>,   \* 은퇴
            <<"uBD80","uBAA8","uB2D8">>,   \* 부모님
            <<"uD6A8","uB3C4">>,   \* 효도
            <<"uAC00","uC871","uC5EC","uD589">>,   \* 가족여행
            <<"uAC00","uC871","uC0AC","uC9C4">>,   \* 가족사진
            <<"uAC00","uC871","uBAA8","uC784">>    \* 가족모임
        >>]
    @@ "50s+" :> [weight |-> FRatio(8, 10),
        platforms |-> <<"youtube">>,
        keywords |-> <<
            <<"uAC74","uAC15">>,   \* 건강
            <<"uC6B4","uB3D9">>,   \* 운동
            <<"uB2E4","uC774","uC5B4","uD2B8">>,   \* 다이어트
            <<"uC694","uB9AC">>,   \* 요리
            <<"uBCA0","uC774","uD0B9">>,   \* 베이킹
            <<"uAC00","uB4DC","uB2DD">>,   \* 가드닝
            <<"uCDE8","uBBF8">>,   \* 취미
            <<"uB3C5","uC11C">>,   \* 독서
            <<"uC601","uD654">>,   \* 영화
            <<"uB4DC","uB77C","uB9C8">>,   \* 드라마
            <<"uB137","uD50C","uB9AD","uC2A4">>,   \* 넷플릭스
            <<"O","T","T">>,   \* OTT
            <<"uC9D1">>,   \* 집
            <<"uC544","uD30C","uD2B8">>,   \* 아파트
            <<"uBD84","uC591">>,   \* 분양
            <<"uC778","uD14C","uB9AC","uC5B4">>,   \* 인테리어
            <<"uAC00","uC804","uC81C","uD488">>,   \* 가전제품
            <<"uAC00","uAD6C">>,   \* 가구
            <<"uCC28">>,   \* 차
            <<"uC790","uB3D9","uCC28">>,   \* 자동차
            <<"uBCF4","uD5D8">>,   \* 보험
            <<"uD22C","uC790">>,   \* 투자
            <<"uD380","uB4DC">>,   \* 펀드
            <<"uC5F0","uAE08">>,   \* 연금
            <<"uC740","uD1F4">>,   \* 은퇴
            <<"uBD80","uBAA8","uB2D8">>,   \* 부모님
            <<"uD6A8","uB3C4">>,   \* 효도
            <<"uAC00","uC871","uC5EC","uD589">>,   \* 가족여행
            <<"uAC00","uC871","uC0AC","uC9C4">>,   \* 가족사진
            <<"uAC00","uC871","uBAA8","uC784">>,   \* 가족모임
            <<"uB178","uD6C4">>,   \* 노후
            <<"uC740","uD1F4">>,   \* 은퇴
            <<"uC5F0","uAE08">>,   \* 연금
            <<"uBCF4","uD5D8">>,   \* 보험
            <<"uAC74","uAC15","uAC80","uC9C4">>,   \* 건강검진
            <<"uBCD1","uC6D0">>    \* 병원
        >>])

platform_weights ==
    ("youtube" :> FRatio(10, 10) @@ "tiktok" :> FRatio(12, 10) @@ "instagram" :> FRatio(11, 10))

\* age_group_popular_keywords as __init__ builds it: no entry has a trending_level yet
PopularKeywords ==
    ( "10s" :> <<
        [keyword |-> <<"uB274","uC9C4","uC2A4">>, score |-> 950, search_count |-> 85000, trending_level |-> None],   \* 뉴진스
        [keyword |-> <<"uB974","uC138","uB77C","uD54C">>, score |-> 920, search_count |-> 82000, trending_level |-> None],   \* 르세라핌
        [keyword |-> <<"uC544","uC774","uBE0C">>, score |-> 890, search_count |-> 78000, trending_level |-> None],   \* 아이브
        [keyword |-> <<"uAC8C","uC784">>, score |-> 850, search_count |-> 75000, trending_level |-> None],   \* 게임
        [keyword |-> <<"uC560","uB2C8","uBA54","uC774","uC158">>, score |-> 820, search_count |-> 72000, trending_level |-> None],   \* 애니메이션
        [keyword |-> <<"uB9CC","uD654">>, score |-> 780, search_count |-> 68000, trending_level |-> None],   \* 만화
        [keyword |-> <<"uD2F1","uD1A1">>, score |-> 750, search_count |-> 65000, trending_level |-> None],   \* 틱톡
        [keyword |-> <<"uC720","uD29C","uBE0C">>, score |-> 720, search_count |-> 62000, trending_level |-> None],   \* 유튜브
        [keyword |-> <<"uC2A4","uD2B8","uB9AC","uBC0D">>, score |-> 680, search_count |-> 58000, trending_level |-> None],   \* 스트리밍
        [keyword |-> <<"uCF54","uC2A4","uD504","uB808">>, score |-> 650, search_count |-> 55000, trending_level |-> None],   \* 코스프레
        [keyword |-> <<"uD32C","uC544","uD2B8">>, score |-> 620, search_count |-> 52000, trending_level |-> None],   \* 팬아트
        [keyword |-> <<"uC2A4","uD0A8","uCF00","uC5B4">>, score |-> 590, search_count |-> 49000, trending_level |-> None],   \* 스킨케어
        [keyword |-> <<"uBA54","uC774","uD06C","uC5C5">>, score |-> 560, search_count |-> 46000, trending_level |-> None],   \* 메이크업
        [keyword |-> <<"uD328","uC158">>, score |-> 530, search_count |-> 43000, trending_level |-> None],   \* 패션
        [keyword |-> <<"uD559","uC6D0">>, score |-> 500, search_count |-> 40000, trending_level |-> None]    \* 학원
    >>
    @@ "20s" :> <<
        [keyword |-> <<"uCDE8","uC5C5">>, score |-> 980, search_count |-> 95000, trending_level |-> None],   \* 취업
        [keyword |-> <<"uC774","uB825","uC11C">>, score |-> 950, search_count |-> 92000, trending_level |-> None],   \* 이력서
        [keyword |-> <<"uBA74","uC811">>, score |-> 920, search_count |-> 89000, trending_level |-> None],   \* 면접
        [keyword |-> <<"uC2A4","uD0C0","uD2B8","uC5C5">>, score |-> 890, search_count |-> 86000, trending_level |-> None],   \* 스타트업
        [keyword |-> <<"uCC3D","uC5C5">>, score |-> 860, search_count |-> 83000, trending_level |-> None],   \* 창업
        [keyword |-> <<"uD22C","uC790">>, score |-> 830, search_count |-> 80000, trending_level |-> None],   \* 투자
        [keyword |-> <<"uC8FC","uC2DD">>, score |-> 800, search_count |-> 77000, trending_level |-> None],   \* 주식
        [keyword |-> <<"uBD80","uB3D9","uC0B0">>, score |-> 770, search_count |-> 74000, trending_level |-> None],   \* 부동산
        [keyword |-> <<"uC9D1">>, score |-> 740, search_count |-> 71000, trending_level |-> None],   \* 집
        [keyword |-> <<"uC6D4","uC138">>, score |-> 710, search_count |-> 68000, trending_level |-> None],   \* 월세
        [keyword |-> <<"uC5F0","uBD09">>, score |-> 680, search_count |-> 65000, trending_level |-> None],   \* 연봉
        [keyword |-> <<"uC5EC","uD589">>, score |-> 650, search_count |-> 62000, trending_level |-> None],   \* 여행
        [keyword |-> <<"uB9DB","uC9D1">>, score |-> 620, search_count |-> 59000, trending_level |-> None],   \* 맛집
        [keyword |-> <<"uCE74","uD398">>, score |-> 590, search_count |-> 56000, trending_level |-> None],   \* 카페
        [keyword |-> <<"uC5F0","uC560">>, score |-> 560, search_count |-> 53000, trending_level |-> None]    \* 연애
    >>
    @@ "30s" :> <<
        [keyword |-> <<"uACB0","uD63C">>, score |-> 950, search_count |-> 90000, trending_level |-> None],   \* 결혼
        [keyword |-> <<"uC721","uC544">>, score |-> 920, search_count |-> 87000, trending_level |-> None],   \* 육아
        [keyword |-> <<"uC544","uC774">>, score |-> 890, search_count |-> 84000, trending_level |-> None],   \* 아이
        [keyword |-> <<"uC720","uCE58","uC6D0">>, score |-> 860, search_count |-> 81000, trending_level |-> None],   \* 유치원
        [keyword |-> <<"uCD08","uB4F1","uD559","uAD50">>, score |-> 830, search_count |-> 78000, trending_level |-> None],   \* 초등학교
        [keyword |-> <<"uD559","uC6D0">>, score |-> 800, search_count |-> 75000, trending_level |-> None],   \* 학원
        [keyword |-> <<"uC9D1">>, score |-> 770, search_count |-> 72000, trending_level |-> None],   \* 집
        [keyword |-> <<"uC544","uD30C","uD2B8">>, score |-> 740, search_count |-> 69000, trending_level |-> None],   \* 아파트
        [keyword |-> <<"uBD84","uC591">>, score |-> 710, search_count |-> 66000, trending_level |-> None],   \* 분양
        [keyword |-> <<"uC778","uD14C","uB9AC","uC5B4">>, score |-> 680, search_count |-> 63000, trending_level |-> None],   \* 인테리어
        [keyword |-> <<"uAC00","uC804","uC81C","uD488">>, score |-> 650, search_count |-> 60000, trending_level |-> None],   \* 가전제품
        [keyword |-> <<"uCC28">>, score |-> 620, search_count |-> 57000, trending_level |-> None],   \* 차
        [keyword |-> <<"uBCF4","uD5D8">>, score |-> 590, search_count |-> 54000, trending_level |-> None],   \* 보험
        [keyword |-> <<"uAC74","uAC15">>, score |-> 560, search_count |-> 51000, trending_level |-> None],   \* 건강
        [keyword |-> <<"uC6B4","uB3D9">>, score |-> 530, search_count |-> 48000, trending_level |-> None]    \* 운동
    >>
    @@ "40s" :> <<
        [keyword |-> <<"uAC74","uAC15">>, score |-> 980, search_count |-> 95000, trending_level |-> None],   \* 건강
        [keyword |-> <<"uC6B4","uB3D9">>, score |-> 950, search_count |-> 92000, trending_level |-> None],   \* 운동
        [keyword |-> <<"uB2E4","uC774","uC5B4","uD2B8">>, score |-> 920, search_count |-> 89000, trending_level |-> None],   \* 다이어트
        [keyword |-> <<"uC694","uB9AC">>, score |-> 890, search_count |-> 86000, trending_level |-> None],   \* 요리
        [keyword |-> <<"uBCA0","uC774","uD0B9">>, score |-> 860, search_count |-> 83000, trending_level |-> None],   \* 베이킹
        [keyword |-> <<"uCDE8","uBBF8">>, score |-> 830, search_count |-> 80000, trending_level |-> None],   \* 취미
        [keyword |-> <<"uB3C5","uC11C">>, score |-> 800, search_count |-> 77000, trending_level |-> None],   \* 독서
        [keyword |-> <<"uC601","uD654">>, score |-> 770, search_count |-> 74000, trending_level |-> None],   \* 영화
        [keyword |-> <<"uB4DC","uB77C","uB9C8">>, score |-> 740, search_count |-> 71000, trending_level |-> None],   \* 드라마
        [keyword |-> <<"uC9D1">>, score |-> 710, search_count |-> 68000, trending_level |-> None],   \* 집
        [keyword |-> <<"uC544","uD30C","uD2B8">>, score |-> 680, search_count |-> 65000, trending_level |-> None],   \* 아파트
        [keyword |-> <<"uCC28">>, score |-> 650, search_count |-> 62000, trending_level |-> None],   \* 차
        [keyword |-> <<"uBCF4","uD5D8">>, score |-> 620, search_count |-> 59000, trending_level |-> None],   \* 보험
        [keyword |-> <<"uD22C","uC790">>, score |-> 590, search_count |-> 56000, trending_level |-> None],   \* 투자
        [keyword |-> <<"uBD80","uBAA8","uB2D8">>, score |-> 560, search_count |-> 53000, trending_level |-> None]    \* 부모님
    >>
    @@ "50s+" :> <<
        [keyword |-> <<"uAC74","uAC15">>, score |-> 1000, search_count |-> 100000, trending_level |-> None],   \* 건강
        [keyword |-> <<"uC6B4","uB3D9">>, score |-> 970, search_count |-> 97000, trending_level |-> None],   \* 운동
        [keyword |-> <<"uB2E4","uC774","uC5B4","uD2B8">>, score |-> 940, search_count |-> 94000, trending_level |-> None],   \* 다이어트
        [keyword |-> <<"uC694","uB9AC">>, score |-> 910, search_count |-> 91000, trending_level |-> None],   \* 요리
        [keyword |-> <<"uCDE8","uBBF8">>, score |-> 880, search_count |-> 88000, trending_level |-> None],   \* 취미
        [keyword |-> <<"uB3C5","uC11C">>, score |-> 850, search_count |-> 85000, trending_level |-> None],   \* 독서
        [keyword |-> <<"uC601","uD654">>, score |-> 820, search_count |-> 82000, trending_level |-> None],   \* 영화
        [keyword |-> <<"uC9D1">>, score |-> 790, search_count |-> 79000, trending_level |-> None],   \* 집
        [keyword |-> <<"uC544","uD30C","uD2B8">>, score |-> 760, search_count |-> 76000, trending_level |-> None],   \* 아파트
        [keyword |-> <<"uCC28">>, score |-> 730, search_count |-> 73000, trending_level |-> None],   \* 차
        [keyword |-> <<"uBCF4","uD5D8">>, score |-> 700, search_count |-> 70000, trending_level |-> None],   \* 보험
        [keyword |-> <<"uD22C","uC790">>, score |-> 670, search_count |-> 67000, trending_level |-> None],   \* 투자
        [keyword |-> <<"uBD80","uBAA8","uB2D8">>, score |-> 640, search_count |-> 64000, trending_level |-> None],   \* 부모님
        [keyword |-> <<"uD6A8","uB3C4">>, score |-> 610, search_count |-> 61000, trending_level |-> None],   \* 효도
        [keyword |-> <<"uB178","uD6C4">>, score |-> 580, search_count |-> 58000, trending_level |-> None]    \* 노후
    >>)

related_keywords_map == <<
    [key |-> <<"uAC8C","uC784">>, related |-> <<<<"uAC8C","uC784">>, <<"uD50C","uB808","uC774">>, <<"uC2A4","uD300">>, <<"uCF58","uC194">>, <<"uBAA8","uBC14","uC77C","uAC8C","uC784">>>>],   \* 게임: 게임 플레이 스팀 콘솔 모바일게임
    [key |-> <<"uCDE8","uC5C5">>, related |-> <<<<"uC774","uB825","uC11C">>, <<"uBA74","uC811">>, <<"uC2A4","uD0C0","uD2B8","uC5C5">>, <<"uC5F0","uBD09">>, <<"uBCF5","uC9C0">>>>],   \* 취업: 이력서 면접 스타트업 연봉 복지
    [key |-> <<"uACB0","uD63C">>, related |-> <<<<"uC6E8","uB529">>, <<"uC2E0","uD63C">>, <<"uC721","uC544">>, <<"uAC00","uC871">>, <<"uBD80","uBD80">>>>],   \* 결혼: 웨딩 신혼 육아 가족 부부
    [key |-> <<"uAC74","uAC15">>, related |-> <<<<"uC6B4","uB3D9">>, <<"uB2E4","uC774","uC5B4","uD2B8">>, <<"uBCD1","uC6D0">>, <<"uC57D">>, <<"uAC80","uC9C4">>>>],   \* 건강: 운동 다이어트 병원 약 검진
    [key |-> <<"uC9D1">>, related |-> <<<<"uC544","uD30C","uD2B8">>, <<"uBD84","uC591">>, <<"uC778","uD14C","uB9AC","uC5B4">>, <<"uAC00","uC804","uC81C","uD488">>, <<"uAC00","uAD6C">>>>],   \* 집: 아파트 분양 인테리어 가전제품 가구
    [key |-> <<"uCC28">>, related |-> <<<<"uC790","uB3D9","uCC28">>, <<"uBCF4","uD5D8">>, <<"uC815","uBE44">>, <<"uC8FC","uC720">>, <<"uC8FC","uCC28">>>>]    \* 차: 자동차 보험 정비 주유 주차
>>

default_related == <<<<"uAD00","uB828">>, <<"uC720","uC0AC">>, <<"uBE44","uC2B7">>, <<"uC5F0","uAD00">>, <<"uAD00","uACC4">>>>   \* 관련 유사 비슷 연관 관계

positive_keywords == <<<<"uC88B","uB2E4">>, <<"uCD5C","uACE0">>, <<"uB300","uBC15">>, <<"uC644","uBCBD">>, <<"uC0AC","uB791">>, <<"uCD94","uCC9C">>, <<"uC778","uAE30">>, <<"uC131","uACF5">>, <<"uD589","uBCF5">>>>
    \* 좋다 최고 대박 완벽 사랑 추천 인기 성공 행복

negative_keywords == <<<<"uB098","uC058","uB2E4">>, <<"uCD5C","uC545">>, <<"uC2E4","uD328">>, <<"uBCC4","uB85C">>, <<"uC2EB","uB2E4">>, <<"uBB38","uC81C">>, <<"uC2E4","uB9DD">>, <<"uC2E4","uD328">>, <<"uC2A4","uD2B8","uB808","uC2A4">>>>
    \* 나쁘다 최악 실패 별로 싫다 문제 실망 실패 스트레스

(***************************************************************************)
(* age_analysis_service.py: scoring helpers                                *)
(***************************************************************************)
\* self.platform_weights.get(platform, 1.0)
WeightIn(weights, platform) ==
    IF platform \in DOMAIN weights THEN weights[platform] ELSE F1

PlatformWeight(platform) == WeightIn(platform_weights, platform)

\* _get_trending_level:
\* "very_popular" is 🔥 매우 인기, "rising" 📈 인기 상승, "interest" 📊 관심 증가,
\* "normal" 📋 일반
get_trending_level(score) ==
    IF FCmp(score, F500) > 0 THEN "very_popular"
    ELSE IF FCmp(score, F200) > 0 THEN "rising"
    ELSE IF FCmp(score, F50) > 0 THEN "interest"
    ELSE "normal"

\* view_count * 0.1 + like_count * 0.3 + comment_count * 0.4 + share_count * 0.2,
\* each counter read as 0 when absent or null
WeightedCounters(trend) ==
    FAdd(FAdd(FAdd(FMul(FInt(OrElse(trend.view_count, 0)), F0_1),
                   FMul(FInt(OrElse(trend.like_count, 0)), F0_3)),
              FMul(FInt(OrElse(trend.comment_count, 0)), F0_4)),
         FMul(FInt(OrElse(trend.share_count, 0)), F0_2))

\* the weighted sum without the limit
EngagementScoreUncapped(trend) == WeightedCounters(trend)

\* _calculate_engagement_score: min(score, 1000)
calculate_engagement_score(trend) == FMin(WeightedCounters(trend), F1000)

(***************************************************************************)
(* analyze_keywords_by_age_group                                           *)
(***************************************************************************)
\* the loop `for keyword in keywords: if "trending_level" not in keyword: ...`
\* on one entry: the entry is a dict of the table itself, updated in place
WithTrendingLevel(entry) ==
    IF entry.trending_level = None
    THEN [entry EXCEPT !.trending_level = Some(get_trending_level(FInt(entry.score)))]
    ELSE entry

\* the entry made for a dictionary keyword of a group without popular keywords:
\* search_count is score * 100
GeneratedEntry(keyword, score) ==
    [keyword |-> keyword, score |-> score, search_count |-> score * 100,
     trending_level |-> Some(get_trending_level(FInt(score)))]

\* the list _generate_age_group_keywords returns
generate_age_group_keywords(pop, age_group, patterns, max_results) ==
    IF age_group \in DOMAIN pop
    THEN [i \in 1..SliceStop(Len(pop[age_group]), max_results) |->
             WithTrendingLevel(pop[age_group][i])]
    ELSE [i \in 1..SliceStop(Len(patterns.keywords), max_results) |->
             GeneratedEntry(patterns.keywords[i], 1000 - ((i - 1) * 50))]

\* age_group_popular_keywords after _generate_age_group_keywords ran for age_group
PopularAfter(pop, age_group, max_results) ==
    IF age_group \in DOMAIN pop
    THEN [pop EXCEPT ![age_group] =
             [i \in 1..Len(@) |-> IF i <= SliceStop(Len(@), max_results)
                                   THEN WithTrendingLevel(@[i]) ELSE @[i]]]
    ELSE pop

\* total_score spread over count platforms
DistributionOf(total_score, platforms, count) ==
    [p \in {platforms[i] : i \in 1..Len(platforms)} |->
        IF total_score > 0
        THEN FTrunc(FDiv(FMul(FInt(total_score), PlatformWeight(p)), FInt(count)))
        ELSE 0]

DistributionByProfile(keywords, platforms, profile_platforms) ==
    DistributionOf(SumSeq([i \in 1..Len(keywords) |-> keywords[i].score]),
                   platforms, Len(profile_platforms))

\* _calculate_platform_distribution is called with the request's platforms;
\* the profile's own platform list is not an argument of it:
\* int(total_score * platform_weight / len(platforms))
Distribution(keywords, platforms, profile_platforms) ==
    DistributionOf(SumSeq([i \in 1..Len(keywords) |-> keywords[i].score]),
                   platforms, Len(platforms))

\* _calculate_platform_distribution
calculate_platform_distribution(keywords, platforms, patterns) ==
    Distribution(keywords, platforms, patterns.platforms)

\* _calculate_trending_score: min(round(avg_score / 10, 2), 100.0)
calculate_trending_score(keywords) ==
    IF keywords = <<>> THEN FZero
    ELSE FMin(Round2(FDiv(FRatio(SumSeq([i \in 1..Len(keywords) |-> keywords[i].score]),
                                 Len(keywords)),
                          F10)),
              F100)

\* one AgeGroupKeywordResponse
\* the response built from the keyword list of the age group
KeywordResponseOf(age_group, age_keywords, platforms, patterns) ==
    [age_group |-> age_group,
     keywords |-> age_keywords,
     total_searches |-> SumSeq([i \in 1..Len(age_keywords) |-> age_keywords[i].search_count]),
     platform_distribution |-> calculate_platform_distribution(age_keywords, platforms, patterns),
     trending_score |-> calculate_trending_score(age_keywords)]

KeywordResponseWith(pop, age_group, max_results, platforms, patterns) ==
    KeywordResponseOf(age_group,
                      generate_age_group_keywords(pop, age_group, patterns, max_results),
                      platforms, patterns)

AgeGroupKeywordResponse(pop, age_group, max_results, platforms) ==
    KeywordResponseWith(pop, age_group, max_results, platforms,
                        age_group_patterns[age_group])

RECURSIVE PopularAfterAll(_, _, _)
PopularAfterAll(pop, groups, max_results) ==
    IF groups = <<>> THEN pop
    ELSE PopularAfterAll(PopularAfter(pop, groups[1], max_results), Tail(groups), max_results)

(***************************************************************************)
(* analyze_specific_keyword                                                *)
(***************************************************************************)
\* keyword.lower() of every dictionary entry of a profile
LowerEntries(keywords) == {Lower(keywords[i]) : i \in 1..Len(keywords)}

LowerKeywordsOf(patterns) == [g \in DOMAIN patterns |-> LowerEntries(patterns[g].keywords)]

LowerKeywords == LowerKeywordsOf(age_group_patterns)

\* weight * 100 on an exact match, weight * 50 on a partial match, else 10.0
RelevanceOf(exact, partial, weight) ==
    IF exact THEN FMul(weight, F100)
    ELSE IF partial THEN FMul(weight, F50)
    ELSE F10

\* `keyword_lower in pattern_keyword or pattern_keyword in keyword_lower`
\* for some dictionary entry
PartialMatch(keyword_lower, lowered) ==
    \E pattern_keyword \in lowered :
        \/ Contains(pattern_keyword, keyword_lower)
        \/ Contains(keyword_lower, pattern_keyword)

\* the test `keyword_lower in pattern_keyword` alone
PartialMatchOneWay(keyword_lower, lowered) ==
    \E pattern_keyword \in lowered : Contains(pattern_keyword, keyword_lower)

RelevanceIn(keyword_lower, lowered, weight) ==
    RelevanceOf(keyword_lower \in lowered, PartialMatch(keyword_lower, lowered), weight)

RelevanceOneWayIn(keyword_lower, lowered, weight) ==
    RelevanceOf(keyword_lower \in lowered, PartialMatchOneWay(keyword_lower, lowered), weight)

\* the partial match testing only whether the keyword is part of a dictionary entry
AgeRelevanceOneWay(keyword, age_group) ==
    RelevanceOneWayIn(Lower(keyword), LowerKeywords[age_group],
                      age_group_patterns[age_group].weight)

\* _calculate_age_relevance
calculate_age_relevance(keyword, age_group) ==
    RelevanceIn(Lower(keyword), LowerKeywords[age_group],
                age_group_patterns[age_group].weight)

\* the analysis dict built from relevance_score:
\* mentions = int(relevance_score / 10) + 5, engagement_score = relevance_score * 10
AnalysisOf(relevance_score, mentions, engagement_score, platforms) ==
    [mentions |-> mentions,
     platform_mentions |->
         [p \in {platforms[i] : i \in 1..Len(platforms)} |-> mentions \div Len(platforms)],
     engagement_score |-> Round2(engagement_score),
     relevance_score |-> Round2(relevance_score),
     trending_level |-> get_trending_level(engagement_score)]

AnalysisScaled(relevance_score, ten, platforms) ==
    AnalysisOf(relevance_score, FTrunc(FDiv(relevance_score, ten)) + 5,
               FMul(relevance_score, ten), platforms)

KeywordAnalysis(relevance_score, platforms) == AnalysisScaled(relevance_score, F10, platforms)

\* _generate_keyword_analysis_for_age_group
generate_keyword_analysis_for_age_group(keyword, age_group) ==
    KeywordAnalysis(calculate_age_relevance(keyword, age_group),
                    age_group_patterns[age_group].platforms)

\* _generate_trending_direction: "rising" is 상승, "flat" 유지, "falling" 하락
generate_trending_direction(keyword) ==
    IF Len(keyword) > 5 THEN "rising"
    ELSE IF Len(keyword) > 3 THEN "flat"
    ELSE "falling"

\* _generate_related_keywords
generate_related_keywords(keyword) ==
    IF \E i \in 1..Len(related_keywords_map) : Contains(keyword, related_keywords_map[i].key)
    THEN LET first == CHOOSE i \in 1..Len(related_keywords_map) :
                         /\ Contains(keyword, related_keywords_map[i].key)
                         /\ \A j \in 1..(i - 1) : ~Contains(keyword, related_keywords_map[j].key)
         IN  Take(related_keywords_map[first].related, 5)
    ELSE Take(default_related, 5)

\* _generate_sentiment_score: 0.8, -0.6 or 0.1
ContainsAny(text, words) == \E i \in 1..Len(words) : Contains(text, words[i])

SentimentOf(keyword_lower) ==
    IF ContainsAny(keyword_lower, positive_keywords) THEN F0_8
    ELSE IF ContainsAny(keyword_lower, negative_keywords) THEN FRatio(-6, 10)
    ELSE F0_1

generate_sentiment_score(keyword) == SentimentOf(Lower(keyword))

\* the loop `for age_group, patterns in self.age_group_patterns.items()`
RECURSIVE AnalysesByGroup(_, _)
AnalysesByGroup(keyword, groups) ==
    IF groups = <<>> THEN <<>>
    ELSE <<generate_keyword_analysis_for_age_group(keyword, Head(groups))>>
             \o AnalysesByGroup(keyword, Tail(groups))

\* the response built from the analyses of the age groups, in the order of groups
KeywordResponseFrom(keyword, groups, byGroup) ==
    [op |-> "keyword", kind |-> "ok", keyword |-> keyword,
     age_groups |-> [g \in {groups[i] : i \in 1..Len(groups)} |->
                        byGroup[CHOOSE i \in 1..Len(groups) : groups[i] = g]],
     total_mentions |-> SumSeq([i \in 1..Len(groups) |-> byGroup[i].mentions]),
     platform_breakdown |->
         [p \in UNION {DOMAIN byGroup[i].platform_mentions : i \in 1..Len(groups)} |->
             SumSeq([i \in 1..Len(groups) |->
                        IF p \in DOMAIN byGroup[i].platform_mentions
                        THEN byGroup[i].platform_mentions[p] ELSE 0])],
     trending_trend |-> generate_trending_direction(keyword),
     related_keywords |-> generate_related_keywords(keyword),
     sentiment_score |-> generate_sentiment_score(keyword)]

KeywordResponseOver(keyword, groups) ==
    KeywordResponseFrom(keyword, groups, AnalysesByGroup(keyword, groups))

KeywordAnalysisResponse(keyword) == KeywordResponseOver(keyword, AgeGroups)

(***************************************************************************)
(* get_age_group_trends                                                    *)
(***************************************************************************)
KnownPlatforms == {"youtube", "tiktok", "instagram"}

\* a TrendResponse with the fields the age analysis reads; published_at is
\* the age of the record in days
TrendResponse(title, description, view_count, like_count, tags, hashtags, category, published_at) ==
    [title |-> title, description |-> description, view_count |-> view_count,
     like_count |-> like_count, comment_count |-> None, share_count |-> None,
     tags |-> tags, hashtags |-> hashtags, category |-> category,
     published_at |-> published_at]

\* ' '.join(parts)
RECURSIVE JoinSpace(_)
JoinSpace(parts) ==
    IF parts = <<>> THEN <<>>
    ELSE IF Len(parts) = 1 THEN parts[1]
    ELSE parts[1] \o <<" ">> \o JoinSpace(Tail(parts))

\* the indices of float keys in the order sorted(..., reverse=True) puts
\* them: descending, equal keys in their original order
StableDescOrder(keys) ==
    LET Rank(i) == 1 + Cardinality({j \in 1..Len(keys) : FCmp(keys[j], keys[i]) > 0})
                     + Cardinality({j \in 1..(i - 1) : FCmp(keys[j], keys[i]) = 0})
    IN  [pos \in 1..Len(keys) |-> CHOOSE i \in 1..Len(keys) : Rank(i) = pos]

\* _collect_trends_from_platforms: a platform whose collaborator raises is
\* skipped; the collaborator returns at most max_results records
RECURSIVE collect_trends_from_platforms(_, _, _)
collect_trends_from_platforms(env, platforms, max_results) ==
    IF platforms = <<>> THEN <<>>
    ELSE LET platform == Head(platforms)
             rest == collect_trends_from_platforms(env, Tail(platforms), max_results)
         IN  IF platform \notin KnownPlatforms \/ env[platform].status # "ok"
             THEN rest
             ELSE LET trends == Take(env[platform].items, max_results)
                  IN  [i \in 1..Len(trends) |-> ("platform" :> platform) @@ trends[i]] \o rest

\* the collaborator calls _collect_trends_from_platforms makes
PlatformCalls(platforms) == SelectSeq(platforms, LAMBDA p : p \in KnownPlatforms)

\* the keyword test of _collect_age_specific_trends on one trend
\* any(keyword.lower() in text_content for keyword in patterns["keywords"])
ContainsKeyword(text_content, keywords) ==
    \E i \in 1..Len(keywords) : Contains(text_content, Lower(keywords[i]))

MatchesAgeGroup(trend, patterns) ==
    ContainsKeyword(Lower(trend.title) \o <<" ">> \o Lower(trend.description[1]),
                    patterns.keywords)

\* the trends of the platforms that match the profile, at most max_results
AgeSpecific(trends, patterns, max_results) ==
    IF \E i \in 1..Len(trends) : trends[i].description = None
    THEN [raised |-> "AttributeError", trends |-> <<>>]
    ELSE [raised |-> "",
          trends |-> Take(SelectSeq(trends, LAMBDA t : MatchesAgeGroup(t, patterns)),
                          max_results)]

\* _collect_age_specific_trends; description.lower() raises on a None description
collect_age_specific_trends(env, patterns, platforms, max_results) ==
    AgeSpecific(collect_trends_from_platforms(env, platforms, max_results * 2),
                patterns, max_results)

\* keyword_scores[word] += engagement_score, the dict keeping insertion order
AddScore(scores, word, amount) ==
    IF \E i \in 1..Len(scores) : scores[i].keyword = word
    THEN [i \in 1..Len(scores) |->
             IF scores[i].keyword = word THEN [scores[i] EXCEPT !.score = FAdd(@, amount)]
             ELSE scores[i]]
    ELSE Append(scores, [keyword |-> word, score |-> FAdd(FZero, amount)])

RECURSIVE AddWordScores(_, _, _)
AddWordScores(scores, words, amount) ==
    IF words = <<>> THEN scores
    ELSE AddWordScores(AddScore(scores, Head(words), amount), Tail(words), amount)

TopKeywordText(trend) ==
    trend.title \o <<" ">> \o trend.description[1] \o <<" ">>
        \o JoinSpace(trend.tags[1]) \o <<" ">> \o JoinSpace(trend.hashtags[1])

RECURSIVE TopKeywordScores(_, _)
TopKeywordScores(scores, trends) ==
    IF trends = <<>> THEN scores
    ELSE TopKeywordScores(
             AddWordScores(scores, FindRuns(TopKeywordText(Head(trends)), 1, "hangul", 2),
                           calculate_engagement_score(Head(trends))),
             Tail(trends))

\* one entry of the list _extract_top_keywords returns
TopKeyword(entry) ==
    [keyword |-> entry.keyword,
     score |-> Round2(entry.score),
     trending_level |-> get_trending_level(entry.score)]

TopKeywordsIn(scores, order, max_results) ==
    Take([pos \in 1..Len(scores) |-> TopKeyword(scores[order[pos]])], max_results)

\* sorted(keyword_scores.items(), key=lambda x: x[1], reverse=True)[:max_results]
TopKeywordsOf(scores, max_results) ==
    TopKeywordsIn(scores, StableDescOrder([i \in 1..Len(scores) |-> scores[i].score]),
                  max_results)

\* _extract_top_keywords; ' '.join(None) raises
extract_top_keywords(trends, max_results) ==
    IF \E i \in 1..Len(trends) : trends[i].tags = None \/ trends[i].hashtags = None
    THEN [raised |-> "TypeError", keywords |-> <<>>]
    ELSE [raised |-> "",
          keywords |-> TopKeywordsOf(TopKeywordScores(<<>>, trends), max_results)]

\* topics[category]["count"] += 1; topics[category]["engagement"] += engagement
AddTopic(topics, category, engagement) ==
    IF \E i \in 1..Len(topics) : topics[i].topic = category
    THEN [i \in 1..Len(topics) |->
             IF topics[i].topic = category
             THEN [topics[i] EXCEPT !.count = @ + 1, !.engagement = FAdd(@, engagement)]
             ELSE topics[i]]
    ELSE Append(topics, [topic |-> category, count |-> 1,
                         engagement |-> FAdd(FZero, engagement)])

RECURSIVE Topics(_, _)
Topics(topics, trends) ==
    IF trends = <<>> THEN topics
    ELSE Topics(AddTopic(topics, Head(trends).category,
                         calculate_engagement_score(Head(trends))),
                Tail(trends))

\* one entry of the list _analyze_trending_topics returns
TrendingTopic(entry) ==
    [topic |-> entry.topic,
     count |-> entry.count,
     engagement |-> Round2(entry.engagement),
     avg_engagement |-> Round2(FDiv(entry.engagement, FInt(entry.count)))]

TrendingTopicsIn(topics, order) ==
    [pos \in 1..Len(topics) |-> TrendingTopic(topics[order[pos]])]

\* sorted(..., key=lambda x: x["engagement"], reverse=True)
TrendingTopicsOf(topics) ==
    TrendingTopicsIn(topics, StableDescOrder([i \in 1..Len(topics) |-> topics[i].engagement]))

\* _analyze_trending_topics
analyze_trending_topics(trends) == TrendingTopicsOf(Topics(<<>>, trends))

\* _calculate_platform_preferences: round(count / total_count * 100, 2)
calculate_platform_preferences(trends, platforms) ==
    [p \in {platforms[i] : i \in 1..Len(platforms)} |->
        IF Len(trends) > 0
        THEN Round2(FMul(FRatio(Cardinality({i \in 1..Len(trends) : trends[i].platform = p}),
                                Len(trends)),
                         F100))
        ELSE FZero]

\* _analyze_content_categories
analyze_content_categories(trends) ==
    [c \in {trends[i].category : i \in 1..Len(trends)} |->
        Cardinality({i \in 1..Len(trends) : trends[i].category = c})]

\* the `except Exception as e: raise Exception(...)` of get_age_group_trends:
\* whatever was raised inside leaves the operation as a plain Exception
TrendsFailure(age_group, max_results, cause) ==
    [op |-> "trends", kind |-> "error", age_group |-> age_group,
     max_results |-> max_results, raised |-> "Exception", cause |-> cause]

\* the response once the keywords and the categories are computed
TrendsAnalysed(age_group, max_results, platforms, trends, top_keywords, content_categories) ==
    IF top_keywords.raised # ""
    THEN TrendsFailure(age_group, max_results, top_keywords.raised)
    \* content_categories: Dict[str, int] does not validate a None key
    ELSE IF None \in DOMAIN content_categories
    THEN TrendsFailure(age_group, max_results, "ValidationError")
    ELSE [op |-> "trends", kind |-> "ok", age_group |-> age_group,
          max_results |-> max_results,
          top_keywords |-> top_keywords.keywords,
          trending_topics |-> analyze_trending_topics(trends),
          platform_preferences |-> calculate_platform_preferences(trends, platforms),
          content_categories |-> content_categories]

\* the response once the trends are collected
TrendsCollected(age_group, max_results, platforms, collected) ==
    IF collected.raised # ""
    THEN TrendsFailure(age_group, max_results, collected.raised)
    ELSE TrendsAnalysed(age_group, max_results, platforms, collected.trends,
                        extract_top_keywords(collected.trends, max_results),
                        analyze_content_categories(collected.trends))

\* the response for an age group with the profile patterns
TrendsWith(env, age_group, max_results, patterns) ==
    TrendsCollected(age_group, max_results, patterns.platforms,
                    collect_age_specific_trends(env, patterns, patterns.platforms,
                                                max_results))

\* the response for an age group, profiles being self.age_group_patterns
TrendsIn(profiles, env, age_group, max_results) ==
    IF age_group \notin DOMAIN profiles
    THEN TrendsFailure(age_group, max_results, "ValueError")
    ELSE TrendsWith(env, age_group, max_results, profiles[age_group])

AgeGroupTrendResponse(env, age_group, max_results) ==
    TrendsIn(age_group_patterns, env, age_group, max_results)

(***************************************************************************)
(* base_service.py: conversions on texts                                   *)
(***************************************************************************)
DigitSeq == <<"0","1","2","3","4","5","6","7","8","9">>

\* the characters int() strips from both ends of a str
IsIntSpace(c) ==
    CodePoint(c) \in (9..13) \cup {32, 133, 160, 5760} \cup (8192..8202)
                         \cup {8232, 8233, 8239, 8287, 12288}

IsDecimalDigitCode(n) == IF n < 128 THEN n \in 48..57 ELSE InRanges(DecimalDigitRanges, n)

IsDecimalDigit(c) == IsDecimalDigitCode(CodePoint(c))

\* n less the first code point of the range of digits it lies in
DigitValueIn(ranges, n) == n - ranges[RowAtOrBelow(ranges, n, 1, Len(ranges))][1]

DigitValueOfCode(n) == IF n < 128 THEN n - 48 ELSE DigitValueIn(DecimalDigitRanges, n)

\* the value of a decimal digit
DigitValue(c) == DigitValueOfCode(CodePoint(c))

\* the value of a text of digits and underscores
RECURSIVE DigitsValue(_)
DigitsValue(t) ==
    IF t = <<>> THEN 0
    ELSE IF t[Len(t)] = "_" THEN DigitsValue(SubSeq(t, 1, Len(t) - 1))
    ELSE DigitsValue(SubSeq(t, 1, Len(t) - 1)) * 10 + DigitValue(t[Len(t)])

\* digits, with single underscores between digits
AllDigits(t) ==
    /\ t # <<>>
    /\ \A i \in 1..Len(t) :
           IF t[i] = "_" THEN i > 1 /\ i < Len(t) /\ t[i - 1] # "_"
           ELSE IsDecimalDigit(t[i])

\* t without the characters int() strips from its ends
StripIntSpaces(t) ==
    LET kept == {i \in 1..Len(t) : ~IsIntSpace(t[i])}
    IN  IF kept = {} THEN <<>>
        ELSE SubSeq(t, CHOOSE i \in kept : \A j \in kept : i <= j,
                       CHOOSE i \in kept : \A j \in kept : i >= j)

\* int(text): None stands for the ValueError.  (The model's integers are
\* 32 bits wide; Python's are unbounded.)
SignedDigits(sign, t) == IF AllDigits(t) THEN Some(sign * DigitsValue(t)) ELSE None

\* int(t) of a text without surrounding whitespace
ParseStripped(t) ==
    IF Len(t) >= 2 /\ t[1] = "-" THEN SignedDigits(0 - 1, Tail(t))
    ELSE IF Len(t) >= 2 /\ t[1] = "+" THEN SignedDigits(1, Tail(t))
    ELSE SignedDigits(1, t)

ParseInt(text) == ParseStripped(StripIntSpaces(text))

\* str(n)
RECURSIVE FormatInt(_)
FormatInt(n) ==
    IF n < 0 THEN <<"-">> \o FormatInt(0 - n)
    ELSE IF n < 10 THEN <<DigitSeq[n + 1]>>
    ELSE FormatInt(n \div 10) \o <<DigitSeq[(n % 10) + 1]>>

\* f"{n:02d}"
Pad2(n) == IF n \in 0..9 THEN <<"0">> \o FormatInt(n) ELSE FormatInt(n)

\* index of the first c in t, 0 if there is none
IndexOf(t, c) ==
    IF \E i \in 1..Len(t) : t[i] = c
    THEN CHOOSE i \in 1..Len(t) : t[i] = c /\ \A j \in 1..(i - 1) : t[j] # c
    ELSE 0

\* t.split(c)
RECURSIVE Split(_, _)
Split(t, c) ==
    LET i == IndexOf(t, c)
    IN  IF i = 0 THEN <<t>>
        ELSE <<SubSeq(t, 1, i - 1)>> \o Split(SubSeq(t, i + 1, Len(t)), c)

\* t.replace("PT", "")
RECURSIVE RemovePT(_)
RemovePT(t) ==
    IF Len(t) < 2 THEN t
    ELSE IF t[1] = "P" /\ t[2] = "T" THEN RemovePT(SubSeq(t, 3, Len(t)))
    ELSE <<t[1]>> \o RemovePT(Tail(t))

\* the return statement without the hours branch
FormatDurationWithoutHours(hours, minutes, seconds) ==
    IF hours = None \/ minutes = None \/ seconds = None
    THEN [raised |-> TRUE, value |-> <<>>]
    ELSE [raised |-> FALSE,
          value |-> FormatInt(minutes[1]) \o <<":">> \o Pad2(seconds[1])]

\* the return statement of parse_duration; a None stands for the ValueError
\* int() raised on that component
FormatDuration(hours, minutes, seconds) ==
    IF hours = None \/ minutes = None \/ seconds = None
    THEN [raised |-> TRUE, value |-> <<>>]
    ELSE [raised |-> FALSE,
          value |-> IF hours[1] > 0
                    THEN FormatInt(hours[1]) \o <<":">> \o Pad2(minutes[1])
                             \o <<":">> \o Pad2(seconds[1])
                    ELSE FormatInt(minutes[1]) \o <<":">> \o Pad2(seconds[1])]

\* parse_duration from `if "S" in duration` on
\* `if unit in duration: n = int(duration.split(unit)[0]); duration =
\* duration.split(unit)[1]`: the component n (0 when the unit is not there)
Component(duration, unit) ==
    IF IndexOf(duration, unit) # 0 THEN ParseInt(Split(duration, unit)[1]) ELSE Some(0)

\* and the duration after the statement
AfterComponent(duration, unit) ==
    IF IndexOf(duration, unit) # 0 THEN Split(duration, unit)[2] ELSE duration

\* parse_duration from `if "S" in duration` on
ParseSeconds(hours, minutes, duration) ==
    FormatDuration(hours, minutes, Component(duration, "S"))

\* parse_duration from `if "M" in duration` on
ParseMinutes(hours, duration) ==
    ParseSeconds(hours, Component(duration, "M"), AfterComponent(duration, "M"))

\* parse_duration from `if "H" in duration` on
ParseHours(duration) ==
    ParseMinutes(Component(duration, "H"), AfterComponent(duration, "H"))

\* BaseSocialMediaService.parse_duration
parse_duration(duration_str) ==
    IF duration_str = <<>> THEN [raised |-> FALSE, value |-> <<>>]
    ELSE ParseHours(RemovePT(duration_str))

\* Python values of the types the services hand to safe_int: a JSON answer
\* holds None, str, int, float, bool and lists
PyNone == [type |-> "NoneType"]
PyStr(t) == [type |-> "str", str |-> t]
PyInt(n) == [type |-> "int", int |-> n]
PyBool(b) == [type |-> "bool", bool |-> b]
PyFloat(x) == [type |-> "float", float |-> x]
PyList(l) == [type |-> "list", list |-> l]

\* dict.get(key) of a field that is absent or holds a str
GetText(o) == IF o = None THEN PyNone ELSE PyStr(o[1])

\* BaseSocialMediaService.safe_int: int(value), None for None and when int()
\* raises ValueError or TypeError
safe_int(value) ==
    CASE value.type = "NoneType" -> None
      [] value.type = "str" -> ParseInt(value.str)
      [] value.type = "int" -> Some(value.int)
      [] value.type = "bool" -> Some(IF value.bool THEN 1 ELSE 0)
      [] value.type = "float" -> Some(FTrunc(value.float))
      [] value.type = "list" -> None

(***************************************************************************)
(* youtube_service.py: rows of the timeframe analysis.  A timestamp is the *)
(* age of the video in whole hours at the time of the request.             *)
(***************************************************************************)
\* YouTubeService._duration_to_seconds
\* the try block on the parts of the split and their values under int()
SecondsOfInts(parts, ints) ==
    IF Len(parts) = 3
    THEN IF \A i \in 1..3 : ints[i] # None
         THEN ints[1][1] * 3600 + ints[2][1] * 60 + ints[3][1] ELSE 0
    ELSE IF Len(parts) = 2
    THEN IF \A i \in 1..2 : ints[i] # None
         THEN ints[1][1] * 60 + ints[2][1] ELSE 0
    ELSE IF ints[1] # None THEN ints[1][1] ELSE 0

SecondsOfSplit(parts) == SecondsOfInts(parts, [i \in 1..Len(parts) |-> ParseInt(parts[i])])

duration_to_seconds(duration_str) ==
    IF duration_str = <<>> THEN 0 ELSE SecondsOfSplit(Split(duration_str, ":"))

\* round(view_count / max(hours, 1e-6), 2)
ViewsPerHour(view_count, age_hours) ==
    Round2(FDiv(FInt(view_count), FMax(FInt(age_hours), F1e_6)))

AnalyzeRow(video_id, channel_id, title, published_at, view_count, duration) ==
    [video_id |-> video_id, channel_id |-> channel_id, title |-> title,
     published_at |-> published_at, view_count |-> view_count,
     views_per_hour |->
         IF published_at # None /\ view_count # None
         THEN Some(ViewsPerHour(view_count[1], published_at[1])) ELSE None,
     subscriber_count |-> None, view_to_subscriber_ratio |-> None,
     duration |-> duration,
     video_url |-> <<"https://www.youtube.com/watch?v=", video_id>>]

\* _to_analyze_row of a videos().list item; raised when parse_duration raises
\* the row of a video whose duration parse_duration has normalised
RowWithDuration(video, duration) ==
    [raised |-> duration.raised,
     row |-> AnalyzeRow(video.id, video.channelId, video.title, video.publishedAt,
                        safe_int(GetText(video.viewCount)), Some(duration.value))]

to_analyze_row(video) == RowWithDuration(video, parse_duration(video.duration))

\* a search result converted the way a videos().list item is: the duration
\* that is not there becomes the empty text
ToAnalyzeRowFromSearchWithDuration(search) ==
    AnalyzeRow(search.id, None, search.title, search.published_at, search.view_count,
               Some(<<>>))

\* _to_analyze_row_from_search of a SearchResponse
to_analyze_row_from_search(search) ==
    AnalyzeRow(search.id, None, search.title, search.published_at, search.view_count, None)

(***************************************************************************)
(* The videos().list items the environment can deliver                     *)
(***************************************************************************)
RawVideo(id, channelId, title, publishedAt, viewCount, duration) ==
    [id |-> id, channelId |-> channelId, title |-> title, publishedAt |-> publishedAt,
     viewCount |-> viewCount, duration |-> duration]

\* the videos of channel ch1: a fresh short one, one with a malformed view
\* count, one older than a month without duration, one with a malformed
\* duration, a fresh one without duration, one published exactly a day ago
VideoPool ==
    { RawVideo("v1", Some("ch1"), "t1", Some(2), Some(<<"2","5","0","0","0">>),
               <<"P","T","2","M","5","S">>),
      RawVideo("v2", Some("ch1"), "t2", Some(48), Some(<<"a","b","c">>),
               <<"P","T","1","H">>),
      RawVideo("v3", Some("ch1"), "t3", Some(1000), Some(<<"9","0","0","0","0">>), <<>>),
      RawVideo("v5", Some("ch1"), "t5", Some(5), None, <<"P","T","x","M">>),
      RawVideo("v6", Some("ch1"), "t6", Some(3), Some(<<"7","0","0","0","0">>), <<>>),
      RawVideo("v7", Some("ch1"), "t7", Some(24), Some(<<"5","0","0">>),
               <<"P","T","1","0","M">>) }

Ch2Videos ==
    << RawVideo("v4", Some("ch2"), "t4", None, Some(<<"3","0","0","0","0">>),
                <<"P","T","3","M">>) >>

\* _to_analyze_row of each of these items, computed once
ConvertedVideos ==
    [video \in VideoPool \cup {Ch2Videos[i] : i \in 1..Len(Ch2Videos)} |->
        to_analyze_row(video)]

ConvertedIn(converted, video) ==
    IF video \in DOMAIN converted THEN converted[video] ELSE to_analyze_row(video)

\* _to_analyze_row(video)
ToAnalyzeRowOf(video) == ConvertedIn(ConvertedVideos, video)

(***************************************************************************)
(* YouTubeService.analyze, one action per stage of the call                *)
(***************************************************************************)
ChunkSize == 50

AnalyzeStages ==
    <<"COLLECT", "FILTER_BY_TIME_AND_FORM", "ENRICH_WITH_CHANNEL_STATS",
      "FILTER_BY_THRESHOLD", "DONE">>

StagesDone(hist) == [i \in 1..Len(hist) |-> hist[i].stage]

\* an API call: the endpoint, the channel ids it carries, the stages completed before it
ApiCall(api, ids, done) == [api |-> api, ids |-> ids, done |-> done]

\* one pass of the `for handle in req.channel_handles` loop; every exception
\* inside it is logged and the handle contributes nothing
\* the rows of the videos of one channel, none when a conversion raised
RowsOfConverted(converted) ==
    IF \E i \in 1..Len(converted) : converted[i].raised
    THEN <<>>
    ELSE [i \in 1..Len(converted) |-> converted[i].row]

RowsOfVideos(videos) == RowsOfConverted([i \in 1..Len(videos) |-> ToAnalyzeRowOf(videos[i])])

\* the calls of a search().list followed by a videos().list, as the answer
\* tells: a raising search().list is the last call, a search().list without
\* items is not followed by videos().list, and a raising videos().list was called
SearchThenVideos(answer, items, done) ==
    <<ApiCall("search.list", {}, done)>> \o
        (IF answer.status # "ok"
         THEN IF answer.at = "videos.list" THEN <<ApiCall("videos.list", {}, done)>> ELSE <<>>
         ELSE IF items = <<>> THEN <<>> ELSE <<ApiCall("videos.list", {}, done)>>)

\* _fetch_recent_videos_by_channel and the conversion of its videos
FetchedRows(answer, videos, resolveCall, done) ==
    [rows |-> IF answer.status # "ok" THEN <<>> ELSE RowsOfVideos(videos),
     calls |-> resolveCall \o SearchThenVideos(answer, videos, done)]

FetchRecent(answer, max_results, resolveCall, done) ==
    FetchedRows(answer, Take(answer.items, Min(max_results, 50)), resolveCall, done)

\* the pass once _resolve_channel_id_by_handle has made its search().list call
Resolved(env, req, resolved, resolveCall, done) ==
    IF resolved = None THEN [rows |-> <<>>, calls |-> resolveCall]
    ELSE FetchRecent(env.videos[resolved[1]], req.max_per_channel, resolveCall, done)

CollectHandle(env, req, handle, done) ==
    Resolved(env, req, env.resolve[handle], <<ApiCall("search.list", {}, done)>>, done)

\* one pass of the `for keyword in req.keywords` loop
\* search_videos and the conversion of its results
SearchedRows(answer, results, done) ==
    [rows |-> IF answer.status # "ok" THEN <<>>
              ELSE [i \in 1..Len(results) |-> to_analyze_row_from_search(results[i])],
     calls |-> SearchThenVideos(answer, results, done)]

Searched(answer, max_results, done) ==
    SearchedRows(answer, Take(answer.items, Min(max_results, 50)), done)

CollectKeyword(env, req, keyword, done) ==
    Searched(env.search[keyword], req.max_per_keyword, done)

\* the rows and the calls of two parts of a loop, one after the other
RowsAndCalls(first, rest) ==
    [rows |-> first.rows \o rest.rows, calls |-> first.calls \o rest.calls]

RECURSIVE CollectHandlesUntilFailure(_, _, _, _)
UntilFailure(first, env, req, handles, done) ==
    IF first.rows = <<>> THEN first
    ELSE RowsAndCalls(first, CollectHandlesUntilFailure(env, req, Tail(handles), done))

\* the channel loop abandoned at the first handle that contributes nothing
CollectHandlesUntilFailure(env, req, handles, done) ==
    IF handles = <<>> THEN [rows |-> <<>>, calls |-> <<>>]
    ELSE UntilFailure(CollectHandle(env, req, Head(handles), done), env, req, handles, done)

\* the `for handle in req.channel_handles` loop: the passes over the handles
\* in order, their rows and calls concatenated (a long list taken in two halves)
RECURSIVE CollectHandles(_, _, _, _)
CollectHandles(env, req, handles, done) ==
    IF handles = <<>> THEN [rows |-> <<>>, calls |-> <<>>]
    ELSE IF Len(handles) = 1 THEN CollectHandle(env, req, Head(handles), done)
    ELSE RowsAndCalls(CollectHandles(env, req, SubSeq(handles, 1, Len(handles) \div 2), done),
                      CollectHandles(env, req,
                                     SubSeq(handles, Len(handles) \div 2 + 1, Len(handles)),
                                     done))

RECURSIVE CollectKeywords(_, _, _, _)
CollectKeywords(env, req, keywords, done) ==
    IF keywords = <<>> THEN [rows |-> <<>>, calls |-> <<>>]
    ELSE RowsAndCalls(CollectKeyword(env, req, Head(keywords), done),
                      CollectKeywords(env, req, Tail(keywords), done))

\* steps 1) to 3) of analyze
Collect(env, req, done) ==
    LET do_channel == req.mode \in {"channel", "both"} /\ req.channel_handles # None
                          /\ req.channel_handles[1] # <<>>
        do_keyword == req.mode \in {"keyword", "both"} /\ req.keywords # None
                          /\ req.keywords[1] # <<>>
    IN  RowsAndCalls(IF do_channel THEN CollectHandles(env, req, req.channel_handles[1], done)
                     ELSE [rows |-> <<>>, calls |-> <<>>],
                     IF do_keyword THEN CollectKeywords(env, req, req.keywords[1], done)
                     ELSE [rows |-> <<>>, calls |-> <<>>])

\* the test with a row published exactly timeframe_days ago dropped as well
KeptByTimeAndFormBeforeBound(r, timeframe_days, form, shorts_threshold) ==
    /\ ~(r.published_at # None /\ r.published_at[1] >= timeframe_days * 24)
    /\ \/ form = "both"
       \/ r.duration = None
       \/ LET is_shorts == duration_to_seconds(r.duration[1]) <= shorts_threshold
          IN  /\ ~(form = "shorts" /\ ~is_shorts)
              /\ ~(form = "long" /\ is_shorts)

\* the test of the loop body of _filter_by_time_and_form on one row
KeptByTimeAndForm(r, timeframe_days, form, shorts_threshold) ==
    /\ ~(r.published_at # None /\ r.published_at[1] > timeframe_days * 24)
    /\ \/ form = "both"
       \/ r.duration = None
       \/ LET is_shorts == duration_to_seconds(r.duration[1]) <= shorts_threshold
          IN  /\ ~(form = "shorts" /\ ~is_shorts)
              /\ ~(form = "long" /\ is_shorts)

KeepAllRows(rows, timeframe_days, form, shorts_threshold) == rows

\* _filter_by_time_and_form
filter_by_time_and_form(rows, timeframe_days, form, shorts_threshold) ==
    SelectSeq(rows, LAMBDA r : KeptByTimeAndForm(r, timeframe_days, form, shorts_threshold))

\* {r.channel_id for r in rows if r.channel_id}
ChannelIds(rows) ==
    {rows[i].channel_id[1] :
        i \in {j \in 1..Len(rows) : rows[j].channel_id # None /\ rows[j].channel_id[1] # ""}}

\* the chunks range(0, len(channel_ids), size) cuts from the list, each as the
\* set of the ids it carries
ChunksBy(channel_ids, size) ==
    [c \in 1..((Len(channel_ids) + size - 1) \div size) |->
        {channel_ids[i] : i \in ((c - 1) * size + 1)..Min(c * size, Len(channel_ids))}]

\* channel_ids[chunk_start:chunk_start+50] for chunk_start in range(0, len(channel_ids), 50)
Chunks(channel_ids) == ChunksBy(channel_ids, ChunkSize)

\* the subsets of S that have k elements
RECURSIVE SubsetsOfSize(_, _)
WithOrWithout(S, k, x) ==
    {T \cup {x} : T \in SubsetsOfSize(S \ {x}, k - 1)} \cup SubsetsOfSize(S \ {x}, k)

SubsetsOfSize(S, k) ==
    IF k = 0 THEN {{}}
    ELSE IF k > Cardinality(S) THEN {}
    ELSE IF 2 * k > Cardinality(S) THEN {S \ T : T \in SubsetsOfSize(S, Cardinality(S) - k)}
    ELSE WithOrWithout(S, k, CHOOSE x \in S : TRUE)

\* list({...}) lists the ids in an order the interpreter chooses, any order
\* of the set: the chunks cut from the listings of ids are any size ids
\* followed by the chunks of a listing of the others
RECURSIVE ChunkSeqsBy(_, _)
ChunkSeqsBy(ids, size) ==
    IF ids = {} THEN {<<>>}
    ELSE IF Cardinality(ids) <= size THEN {<<ids>>}
    ELSE UNION {{<<first>> \o rest : rest \in ChunkSeqsBy(ids \ first, size)} :
                   first \in SubsetsOfSize(ids, size)}

\* the chunks of list({r.channel_id for r in rows if r.channel_id}), one
\* sequence of chunks for every order of the list
ChunkSeqs(ids) == ChunkSeqsBy(ids, ChunkSize)

\* the chunk loop with one try around the whole loop: nothing is kept once a call raises
IdToSubsAllOrNothing(env, chunks) ==
    LET answered == IF \E i \in 1..Len(chunks) : i \in env.stats.raises THEN {}
                    ELSE (UNION {chunks[i] : i \in 1..Len(chunks)}) \cap DOMAIN env.stats.subs
    IN  [cid \in answered |-> safe_int(GetText(env.stats.subs[cid]))]

\* id_to_subs after the chunk loop: a chunk whose call raises adds nothing
IdToSubs(env, chunks) ==
    LET answered == (UNION {chunks[i] : i \in {j \in 1..Len(chunks) : j \notin env.stats.raises}})
                        \cap DOMAIN env.stats.subs
    IN  [cid \in answered |-> safe_int(GetText(env.stats.subs[cid]))]

\* the `for r in rows` loop of _enrich_with_channel_stats on one row
\* the two assignments of the loop body, subs being id_to_subs[r.channel_id]
WithSubscribers(r, subs) ==
    [r EXCEPT !.subscriber_count = subs,
              !.view_to_subscriber_ratio =
                  IF subs # None /\ subs[1] # 0
                     /\ r.view_count # None /\ r.view_count[1] # 0
                  THEN Some(Round2(FRatio(r.view_count[1],
                                          IF subs[1] > 1 THEN subs[1] ELSE 1)))
                  ELSE @]

EnrichRow(r, id_to_subs) ==
    IF r.channel_id # None /\ r.channel_id[1] # "" /\ r.channel_id[1] \in DOMAIN id_to_subs
    THEN WithSubscribers(r, id_to_subs[r.channel_id[1]])
    ELSE r

\* every row enriched from the subscriber counts read
EnrichRows(rows, id_to_subs) == [i \in 1..Len(rows) |-> EnrichRow(rows[i], id_to_subs)]

\* enrichment that returns only the rows whose channel was answered
EnrichOnlyAnsweredRows(env, rows, chunks) ==
    SelectSeq(EnrichRows(rows, IdToSubs(env, chunks)),
              LAMBDA r : r.subscriber_count # None)

\* _enrich_with_channel_stats, the ids cut into the given chunks
enrich_with_channel_stats(env, rows, chunks) == EnrichRows(rows, IdToSubs(env, chunks))

\* the threshold test with a null view_count read as 0
PassesThresholdNullAsZero(row, req) ==
    /\ OrElse(row.view_count, 0) >= req.min_view_count
    /\ FCmp(OrElse(row.views_per_hour, FZero), req.min_views_per_hour) >= 0

\* step 6) of analyze on one row
PassesThreshold(row, req) ==
    /\ row.view_count # None
    /\ row.view_count[1] >= req.min_view_count
    /\ FCmp(OrElse(row.views_per_hour, FZero), req.min_views_per_hour) >= 0

\* the summary with the thresholds at their defaults instead of the request's
SettingsWithDefaultThresholds(req) ==
    [mode |-> req.mode, form |-> req.form, timeframe_days |-> req.timeframe_days,
     region |-> req.region, language |-> req.language,
     thresholds |-> [min_view_count |-> 0, min_views_per_hour |-> FZero,
                     shorts_threshold_seconds |-> 180]]

settings_summary(req) ==
    [mode |-> req.mode, form |-> req.form, timeframe_days |-> req.timeframe_days,
     region |-> req.region, language |-> req.language,
     thresholds |-> [min_view_count |-> req.min_view_count,
                     min_views_per_hour |-> req.min_views_per_hour,
                     shorts_threshold_seconds |-> req.shorts_threshold_seconds]]

NoRequest == [mode |-> "none"]
NoAnalysis == [status |-> "none"]

\* the state once the rows are collected
Collected(collected) ==
    /\ anOut' = NoAnalysis
    /\ anRows' = collected.rows
    /\ anCalls' = collected.calls
    /\ anHist' = <<[stage |-> "COLLECT", rows |-> collected.rows]>>
    /\ anPc' = "FILTER_BY_TIME_AND_FORM"

\* analyze up to the end of collection; without a client the call raises at
\* once.  A call keeps nothing for the next one, so a behaviour follows one call.
AnalyzeCollect(req) ==
    /\ anPc = "idle"
    /\ anReq' = req
    /\ anFiltered' = <<>>
    /\ IF ~ytEnv.client
       THEN /\ anOut' = [status |-> "error"]
            /\ anPc' = "idle"
            /\ anRows' = <<>>
            /\ anHist' = <<>>
            /\ anCalls' = <<>>
       ELSE Collected(Collect(ytEnv, req, <<>>))
    /\ UNCHANGED ytEnv

\* the rows of the stage replace the collected ones
StageDone(stage, collected) ==
    /\ anRows' = collected
    /\ anHist' = Append(anHist, [stage |-> stage, rows |-> collected])

AnalyzeFilterByTimeAndForm ==
    /\ anPc = "FILTER_BY_TIME_AND_FORM"
    /\ StageDone("FILTER_BY_TIME_AND_FORM",
                 filter_by_time_and_form(anRows, anReq.timeframe_days, anReq.form,
                                         anReq.shorts_threshold_seconds))
    /\ anPc' = "ENRICH_WITH_CHANNEL_STATS"
    /\ UNCHANGED <<ytEnv, anReq, anFiltered, anOut, anCalls>>

AnalyzeEnrichWithChannelStats ==
    /\ anPc = "ENRICH_WITH_CHANNEL_STATS"
    /\ \E chunks \in ChunkSeqs(ChannelIds(anRows)) :
          /\ StageDone("ENRICH_WITH_CHANNEL_STATS",
                       enrich_with_channel_stats(ytEnv, anRows, chunks))
          /\ anCalls' = anCalls \o [i \in 1..Len(chunks) |->
                                       ApiCall("channels.list", chunks[i], StagesDone(anHist))]
    /\ anPc' = "FILTER_BY_THRESHOLD"
    /\ UNCHANGED <<ytEnv, anReq, anFiltered, anOut>>

Filtered(filtered_rows) ==
    /\ anFiltered' = filtered_rows
    /\ anHist' = Append(anHist, [stage |-> "FILTER_BY_THRESHOLD", rows |-> filtered_rows])

AnalyzeFilterByThreshold ==
    /\ anPc = "FILTER_BY_THRESHOLD"
    /\ Filtered(SelectSeq(anRows, LAMBDA row : PassesThreshold(row, anReq)))
    /\ anPc' = "RETURN"
    /\ UNCHANGED <<ytEnv, anReq, anRows, anOut, anCalls>>

AnalyzeReturn ==
    /\ anPc = "RETURN"
    /\ anOut' = [status |-> "ok", rows |-> anFiltered, total |-> Len(anRows),
                 filtered |-> Len(anFiltered), settings |-> settings_summary(anReq)]
    /\ anHist' = Append(anHist, [stage |-> "DONE", rows |-> anFiltered])
    /\ anPc' = "DONE"
    /\ UNCHANGED <<ytEnv, anReq, anRows, anFiltered, anCalls>>

(***************************************************************************)
(* The environments.  A collaborator is modelled by the responses its      *)
(* declared return type allows.                                            *)
(***************************************************************************)
MaxAgeRecords == 1
MaxLimit == 1
MaxVideos == 2
MaxStatsCalls == 2
MaxExtraChannels == 1

AgeRecords ==
    { \* 게임 game
      TrendResponse(<<"uAC8C","uC784"," ","g","a","m","e">>, Some(<<>>), Some(1000), Some(10),
                    Some(<<>>), Some(<<<<"#","f","u","n">>>>), Some("20"), Some(1)),
      \* 건강 운동 / 건강, tagged 운동
      TrendResponse(<<"uAC74","uAC15"," ","uC6B4","uB3D9">>, Some(<<"uAC74","uAC15">>), Some(3000), None,
                    Some(<<<<"uC6B4","uB3D9">>>>), Some(<<>>), Some(""), Some(30)),
      \* 게임 추천, without description
      TrendResponse(<<"uAC8C","uC784"," ","uCD94","uCC9C">>, None, Some(500), None, None, None, None, None),
      \* 건강, as the platform services build their records: tags=None, category=None
      TrendResponse(<<"uAC74","uAC15">>, Some(<<"x">>), Some(200), None, None, Some(<<>>), None, None) }

PlatformAnswers == {Raised} \cup {Answered(items) : items \in SeqsUpTo(AgeRecords, MaxAgeRecords)}

AgeWorlds ==
    { [youtube |-> a[1], tiktok |-> a[2], instagram |-> a[3]] :
        a \in { b \in PlatformAnswers \X PlatformAnswers \X PlatformAnswers :
                    Len(b[1].items) + Len(b[2].items) + Len(b[3].items) <= MaxAgeRecords } }

QuietWorld == [p \in KnownPlatforms |-> Answered(<<>>)]

\* the default request list, a single platform, and no platform
PlatformLists == { <<"youtube", "tiktok", "instagram">>, <<"youtube">>, <<>> }

AnalysedKeywords ==
    { <<"uD5EC","uC2A4">>,   \* 헬스
      <<"uAC8C","uC784">>,   \* 게임
      <<"uAC74","uAC15","uAC80","uC9C4","uC13C","uD130">>,   \* 건강검진센터
      <<"uCD5C","uC545">>,   \* 최악
      <<"uCD94","uCC9C">>,   \* 추천
      <<"K","-","P","O","P">> }

\* "60s" is 60대, an age group without a profile
RequestedAgeGroups == {AgeGroups[i] : i \in 1..Len(AgeGroups)} \cup {"60s"}

TrendLimits == {1, 15}

NoAgeResponse == [op |-> "none", kind |-> "none"]

SearchResults ==
    << [id |-> "s1", title |-> "s1", published_at |-> Some(10), view_count |-> Some(50000)] >>

\* channels().list: the numbers of the calls that raise, and the
\* subscriberCount of the channels an answer lists
StatsCalls == 1..MaxStatsCalls

StatsAnswers ==
    { [raises |-> {}, subs |-> ("ch1" :> Some(<<"1","0","0","0">>) @@ "ch2" :> Some(<<"0">>))],
      [raises |-> {}, subs |-> ("ch2" :> None)],
      [raises |-> StatsCalls, subs |-> <<>>] }

YtWorld(client, ch1Videos, stats) ==
    [client |-> client,
     resolve |-> ("@a" :> Some("ch1") @@ "@b" :> Some("ch2") @@ "@x" :> None),
     videos |-> ("ch1" :> ch1Videos @@ "ch2" :> Answered(Ch2Videos)),
     search |-> ("k1" :> Answered(SearchResults) @@ "k2" :> RaisedAt("videos.list")),
     stats |-> stats]

YtWorlds ==
    { YtWorld(TRUE, Answered(videos), stats) :
        videos \in SeqsUpTo(VideoPool, MaxVideos), stats \in StatsAnswers }
    \cup { YtWorld(TRUE, RaisedAt(api), stats) :
                api \in {"search.list", "videos.list"}, stats \in StatsAnswers }
    \cup { YtWorld(FALSE, RaisedAt("search.list"), [raises |-> StatsCalls, subs |-> <<>>]) }

QuietYtWorld == YtWorld(FALSE, RaisedAt("search.list"), [raises |-> StatsCalls, subs |-> <<>>])

AnalyzeRequests ==
    { [mode |-> mode, channel_handles |-> targets[1], keywords |-> targets[2],
       form |-> form, shorts_threshold_seconds |-> 180, timeframe_days |-> timeframe_days,
       region |-> "KR", language |-> "ko", max_per_channel |-> 10, max_per_keyword |-> 50,
       min_view_count |-> thresholds[1], min_views_per_hour |-> FInt(thresholds[2])] :
        mode \in {"channel", "keyword", "both"},
        targets \in { <<Some(<<"@x", "@a", "@b">>), Some(<<"k2", "k1">>)>>,
                      <<Some(<<"@a">>), None>>,
                      <<None, Some(<<"k1">>)>>,
                      <<Some(<<>>), Some(<<>>)>> },
        form \in {"shorts", "long", "both"},
        timeframe_days \in {1, 30},
        thresholds \in { <<0, 0>>, <<20000, 600>> } }

(***************************************************************************)
(* The operations of AgeAnalysisService.  A response is a function of the  *)
(* arguments and of what the operation reads; the responses to the inputs  *)
(* above are tabulated, each computed once, and an operation reads its     *)
(* response from the table when the table holds it.                        *)
(***************************************************************************)
\* the max_results of the calls of analyze_keywords_by_age_group: nothing
\* bounds the argument, and a negative one counts from the end of the lists
GroupLimits == {-1} \cup (0..MaxLimit)

\* age_group_popular_keywords as the calls with these limits leave it
PopularTables == {PopularAfterAll(PopularKeywords, AgeGroups, n) : n \in GroupLimits}

\* the responses of one call of analyze_keywords_by_age_group, and the table
\* as the call leaves it
GroupKeywordResults(pop, max_results, platforms) ==
    [results |-> [i \in 1..Len(AgeGroups) |->
                     AgeGroupKeywordResponse(pop, AgeGroups[i], max_results, platforms)],
     popular |-> PopularAfterAll(pop, AgeGroups, max_results)]

GroupKeywordResponses ==
    [pop \in PopularTables, max_results \in GroupLimits, platforms \in PlatformLists |->
        GroupKeywordResults(pop, max_results, platforms)]

GroupKeywordResultsOf(pop, max_results, platforms) ==
    IF /\ max_results \in GroupLimits
       /\ platforms \in PlatformLists
       /\ pop \in PopularTables
    THEN GroupKeywordResponses[pop, max_results, platforms]
    ELSE GroupKeywordResults(pop, max_results, platforms)

KeywordAnalysisResponses ==
    [keyword \in AnalysedKeywords |-> KeywordAnalysisResponse(keyword)]

KeywordAnalysisResponseOf(keyword) ==
    IF keyword \in AnalysedKeywords THEN KeywordAnalysisResponses[keyword]
    ELSE KeywordAnalysisResponse(keyword)

TrendResponses ==
    [env \in AgeWorlds, age_group \in RequestedAgeGroups, max_results \in TrendLimits |->
        AgeGroupTrendResponse(env, age_group, max_results)]

TrendResponseOf(env, age_group, max_results) ==
    IF /\ env \in AgeWorlds
       /\ age_group \in RequestedAgeGroups
       /\ max_results \in TrendLimits
    THEN TrendResponses[env, age_group, max_results]
    ELSE AgeGroupTrendResponse(env, age_group, max_results)

analyze_keywords_by_age_group(max_results, platforms) ==
    LET call == GroupKeywordResultsOf(popular, max_results, platforms)
    IN  /\ ageOut' = [op |-> "groups", kind |-> "ok",
                      max_results |-> max_results, platforms |-> platforms,
                      results |-> call.results]
        /\ popular' = call.popular
        /\ ageCalls' = <<>>
        /\ UNCHANGED ageEnv

\* the platforms argument is only defaulted, never read
analyze_specific_keyword(keyword) ==
    /\ ageOut' = KeywordAnalysisResponseOf(keyword)
    /\ ageCalls' = <<>>
    /\ UNCHANGED <<ageEnv, popular>>

\* the collaborator calls of get_age_group_trends, profiles being
\* self.age_group_patterns
TrendCallsIn(profiles, age_group) ==
    IF age_group \in DOMAIN profiles THEN PlatformCalls(profiles[age_group].platforms)
    ELSE <<>>

get_age_group_trends(age_group, max_results) ==
    /\ ageOut' = TrendResponseOf(ageEnv, age_group, max_results)
    /\ ageCalls' = TrendCallsIn(age_group_patterns, age_group)
    /\ UNCHANGED <<ageEnv, popular>>

(***************************************************************************)
(* Specifications: one per component, the other components staying idle    *)
(***************************************************************************)
AggIdle ==
    /\ aggIn = [youtube |-> Answered(<<>>), tiktok |-> Answered(<<>>),
                instagram |-> Answered(<<>>)]
    /\ aggOut = NoResponse
    /\ ranked = <<>>

AgeIdle ==
    /\ ageEnv = QuietWorld
    /\ popular = PopularKeywords
    /\ ageOut = NoAgeResponse
    /\ ageCalls = <<>>

AnalyzeIdle ==
    /\ ytEnv = QuietYtWorld
    /\ anReq = NoRequest
    /\ anPc = "idle"
    /\ anRows = <<>>
    /\ anFiltered = <<>>
    /\ anOut = NoAnalysis
    /\ anHist = <<>>
    /\ anCalls = <<>>

NoCall == [fn |-> "none"]
NoResult == [returned |-> FALSE]

FnIdle ==
    /\ fnIn = NoCall
    /\ fnOut = NoResult

InitAgg ==
    /\ aggIn \in CollaboratorAnswers
    /\ aggOut = NoResponse
    /\ ranked = <<>>
    /\ AgeIdle
    /\ AnalyzeIdle
    /\ FnIdle

TrendingKeywordsRequest ==
    /\ \E max_results \in KeywordLimits : get_trending_keywords(max_results, aggIn)
    /\ UNCHANGED <<aggIn, ageVars, anVars, fnVars>>

RealtimeTrendsRequest ==
    /\ get_realtime_trends(aggIn)
    /\ UNCHANGED <<aggIn, ageVars, anVars, fnVars>>

NextAgg ==
    \/ TrendingKeywordsRequest
    \/ RealtimeTrendsRequest

SpecAgg == InitAgg /\ [][NextAgg]_vars

InitAge ==
    /\ ageEnv \in AgeWorlds
    /\ popular = PopularKeywords
    /\ ageOut = NoAgeResponse
    /\ ageCalls = <<>>
    /\ AggIdle
    /\ AnalyzeIdle
    /\ FnIdle

AgeGroupKeywordsRequest ==
    /\ \E max_results \in GroupLimits, platforms \in PlatformLists :
          analyze_keywords_by_age_group(max_results, platforms)
    /\ UNCHANGED <<aggVars, anVars, fnVars>>

SpecificKeywordRequest ==
    /\ \E keyword \in AnalysedKeywords : analyze_specific_keyword(keyword)
    /\ UNCHANGED <<aggVars, anVars, fnVars>>

AgeGroupTrendsRequest ==
    /\ \E age_group \in RequestedAgeGroups, max_results \in TrendLimits :
          get_age_group_trends(age_group, max_results)
    /\ UNCHANGED <<aggVars, anVars, fnVars>>

NextAge ==
    \/ AgeGroupKeywordsRequest
    \/ SpecificKeywordRequest
    \/ AgeGroupTrendsRequest

SpecAge == InitAge /\ [][NextAge]_vars

InitAnalyze ==
    /\ ytEnv \in YtWorlds
    /\ anReq = NoRequest
    /\ anPc = "idle"
    /\ anRows = <<>>
    /\ anFiltered = <<>>
    /\ anOut = NoAnalysis
    /\ anHist = <<>>
    /\ anCalls = <<>>
    /\ AggIdle
    /\ AgeIdle
    /\ FnIdle

AnalyzeRequest ==
    /\ \E req \in AnalyzeRequests : AnalyzeCollect(req)
    /\ UNCHANGED <<aggVars, ageVars, fnVars>>

NextAnalyze ==
    \/ AnalyzeRequest
    \/ AnalyzeFilterByTimeAndForm /\ UNCHANGED <<aggVars, ageVars, fnVars>>
    \/ AnalyzeEnrichWithChannelStats /\ UNCHANGED <<aggVars, ageVars, fnVars>>
    \/ AnalyzeFilterByThreshold /\ UNCHANGED <<aggVars, ageVars, fnVars>>
    \/ AnalyzeReturn /\ UNCHANGED <<aggVars, ageVars, fnVars>>

SpecAnalyze == InitAnalyze /\ [][NextAnalyze]_vars

(***************************************************************************)
(* A request for many channels, each holding one fresh short video: more   *)
(* channel ids than one channels().list call carries                       *)
(***************************************************************************)
ChannelCounts == {1, ChunkSize, ChunkSize + MaxExtraChannels}

HandleOf(i) == "@h" \o ToString(i)
ChannelOf(i) == "c" \o ToString(i)

ChannelVideo(i) ==
    RawVideo("v" \o ToString(i), Some(ChannelOf(i)), "t", Some(2),
             Some(<<"2","5","0","0","0">>), <<"P","T","2","M","5","S">>)

\* the API answers for n channels; the calls numbered in raises raise, and the
\* answers list every channel but the unlisted ones
ManyChannelWorld(n, raises, unlisted) ==
    [client |-> TRUE,
     resolve |-> [h \in {HandleOf(i) : i \in 1..n} |->
                     Some(ChannelOf(CHOOSE i \in 1..n : HandleOf(i) = h))],
     videos |-> [c \in {ChannelOf(i) : i \in 1..n} |->
                    Answered(<<ChannelVideo(CHOOSE i \in 1..n : ChannelOf(i) = c)>>)],
     search |-> <<>>,
     stats |-> [raises |-> raises,
                subs |-> [c \in {ChannelOf(i) : i \in 1..n} \ unlisted |->
                             Some(<<"1","0","0","0">>)]]]

\* the calls that n channel ids take
CallsFor(n) == (n + ChunkSize - 1) \div ChunkSize

ManyChannelWorlds ==
    UNION { { ManyChannelWorld(n, raises, unlisted) :
                raises \in SUBSET (1..Min(MaxStatsCalls, CallsFor(n))),
                unlisted \in { {}, {ChannelOf(1)} } } :
            n \in ChannelCounts }

\* the request naming every handle the world knows
ManyChannelRequests(env) ==
    { [mode |-> "channel",
       channel_handles |-> Some([i \in 1..Cardinality(DOMAIN env.resolve) |-> HandleOf(i)]),
       keywords |-> None, form |-> "both", shorts_threshold_seconds |-> 180,
       timeframe_days |-> 30, region |-> "KR", language |-> "ko",
       max_per_channel |-> 10, max_per_keyword |-> 50,
       min_view_count |-> 0, min_views_per_hour |-> FZero] }

InitChannels ==
    /\ ytEnv \in ManyChannelWorlds
    /\ anReq = NoRequest
    /\ anPc = "idle"
    /\ anRows = <<>>
    /\ anFiltered = <<>>
    /\ anOut = NoAnalysis
    /\ anHist = <<>>
    /\ anCalls = <<>>
    /\ AggIdle
    /\ AgeIdle
    /\ FnIdle

ManyChannelsRequest ==
    /\ \E req \in ManyChannelRequests(ytEnv) : AnalyzeCollect(req)
    /\ UNCHANGED <<aggVars, ageVars, fnVars>>

NextChannels ==
    \/ ManyChannelsRequest
    \/ AnalyzeFilterByTimeAndForm /\ UNCHANGED <<aggVars, ageVars, fnVars>>
    \/ AnalyzeEnrichWithChannelStats /\ UNCHANGED <<aggVars, ageVars, fnVars>>
    \/ AnalyzeFilterByThreshold /\ UNCHANGED <<aggVars, ageVars, fnVars>>
    \/ AnalyzeReturn /\ UNCHANGED <<aggVars, ageVars, fnVars>>

SpecChannels == InitChannels /\ [][NextChannels]_vars

(***************************************************************************)
(* The pure helpers of the services, each called once on arguments drawn   *)
(* from the sets below                                                     *)
(***************************************************************************)
\* base_service.py: text[:stop]
SliceTo(text, stop) == Take(text, stop)

\* BaseSocialMediaService.truncate_text
truncate_text(text, max_length) ==
    IF text = <<>> THEN <<>>
    ELSE IF Len(text) <= max_length THEN text
    ELSE SliceTo(text, max_length - 3) \o <<".", ".", ".">>

MaxTextLen == 6

\* the counters of a record: absent, zero, small, such that the weighted sum
\* is not a decimal the doubles hold, and at and above the limit
CounterNumbers == {0, 1, 3, 2500, 4997, 10000, 10001}
CounterValues == {None} \cup {Some(n) : n \in CounterNumbers}

EngagementCalls ==
    { [fn |-> "calculate_engagement_score",
       trend |-> [view_count |-> v, like_count |-> l, comment_count |-> c, share_count |-> s]] :
        v \in CounterValues, l \in CounterValues, c \in CounterValues, s \in CounterValues }

\* keywords that are an entry of a dictionary (in its case and another), that
\* contain one, that are part of one, and that overlap none
RelevanceKeywords ==
    { <<"uAC8C","uC784">>,                                \* 게임
      <<"k","-","P","O","P">>,                            \* k-POP
      <<"uAC74","uAC15","uAC80","uC9C4","uC13C","uD130">>, \* 건강검진센터
      <<"uC560","uB2C8">>,                                \* 애니
      <<"p","o">>,
      <<"uD5EC","uC2A4">>,                                \* 헬스
      <<"x","y","z">>,
      <<>> }

RelevanceCalls ==
    { [fn |-> "calculate_age_relevance", keyword |-> keyword, age_group |-> AgeGroups[g]] :
        keyword \in RelevanceKeywords, g \in 1..Len(AgeGroups) }

TextOfLength(n) == [i \in 1..n |-> ToString(i % 10)]

TruncateCalls ==
    { [fn |-> "truncate_text", text |-> TextOfLength(n), max_length |-> max_length] :
        n \in 0..MaxTextLen, max_length \in 0..(MaxTextLen + 1) }

\* a component of a PT...H...M...S text: written out, or left out when it is 0
ComponentTexts(value, unit) ==
    {FormatInt(value) \o <<unit>>} \cup (IF value = 0 THEN {<<>>} ELSE {})

DurationValues == {0, 1, 9, 10, 59}
DurationHours == {0, 1, 10, 99}

DurationCalls ==
    UNION { { [fn |-> "parse_duration", hours |-> h, minutes |-> m, seconds |-> s,
               duration_str |-> <<"P", "T">> \o ht \o mt \o st] :
                ht \in ComponentTexts(h, "H"), mt \in ComponentTexts(m, "M"),
                st \in ComponentTexts(s, "S") } :
            h \in DurationHours, m \in DurationValues, s \in DurationValues }
    \cup { [fn |-> "parse_duration", hours |-> 0, minutes |-> 0, seconds |-> 0,
            duration_str |-> <<>>] }

\* re.findall(r'#\w+', t) scanning from index i
RECURSIVE FindHashtags(_, _)
RECURSIVE HashtagThenHashtags(_, _, _)
FindHashtags(t, i) ==
    IF i >= Len(t) THEN <<>>
    ELSE IF t[i] = "#" /\ IsWordChar(t[i + 1])
         THEN HashtagThenHashtags(t, i, RunEnd(t, i + 1, "word"))
         ELSE FindHashtags(t, i + 1)

\* the hashtag from i ends before j
HashtagThenHashtags(t, i, j) == <<SubSeq(t, i, j - 1)>> \o FindHashtags(t, j)

\* [tag.lower() for tag in hashtags]
LowerEach(hashtags) == [k \in 1..Len(hashtags) |-> Lower(hashtags[k])]

\* the hashtags as found, not lower-cased
ExtractHashtagsCaseKept(text) ==
    IF text = <<>> THEN <<>> ELSE FindHashtags(text, 1)

\* extract_hashtags
extract_hashtags(text) ==
    IF text = <<>> THEN <<>> ELSE LowerEach(FindHashtags(text, 1))

MaxTagTextLen == 4
\* the last is the mathematical bold capital A
TagChars == {"#", "A", "b", "1", "_", " ", "uAC8C", "u1D400"}
TextsOver(chars, n) == UNION {[1..k -> chars] : k \in 0..n}
HashtagCalls == {[fn |-> "extract_hashtags", text |-> t] : t \in TextsOver(TagChars, MaxTagTextLen)}

MaxKeywordTextLen == 5
\* letters of the stop words 'or' and 또는, a digit, a blank, '#' and the
\* Kelvin sign
KeywordTextChars == {"o", "R", "1", " ", "#", "uB610", "uB294", "u212A"}
KeywordCalls ==
    {[fn |-> "extract_keywords_from_text", text |-> t] :
        t \in TextsOver(KeywordTextChars, MaxKeywordTextLen)}

InitHelpers ==
    /\ \/ fnIn \in EngagementCalls
       \/ fnIn \in RelevanceCalls
       \/ fnIn \in TruncateCalls
       \/ fnIn \in DurationCalls
       \/ fnIn \in HashtagCalls
       \/ fnIn \in KeywordCalls
    /\ fnOut = NoResult
    /\ AggIdle
    /\ AgeIdle
    /\ AnalyzeIdle

EngagementScoreCall ==
    /\ fnIn.fn = "calculate_engagement_score"
    /\ fnOut = NoResult
    /\ fnOut' = [returned |-> TRUE, value |-> calculate_engagement_score(fnIn.trend)]
    /\ UNCHANGED <<fnIn, aggVars, ageVars, anVars>>

AgeRelevanceCall ==
    /\ fnIn.fn = "calculate_age_relevance"
    /\ fnOut = NoResult
    /\ fnOut' = [returned |-> TRUE,
                 value |-> calculate_age_relevance(fnIn.keyword, fnIn.age_group)]
    /\ UNCHANGED <<fnIn, aggVars, ageVars, anVars>>

TruncateTextCall ==
    /\ fnIn.fn = "truncate_text"
    /\ fnOut = NoResult
    /\ fnOut' = [returned |-> TRUE, text |-> truncate_text(fnIn.text, fnIn.max_length)]
    /\ UNCHANGED <<fnIn, aggVars, ageVars, anVars>>

\* parse_duration, and _duration_to_seconds on what it returned
ParseDurationCall ==
    /\ fnIn.fn = "parse_duration"
    /\ fnOut = NoResult
    /\ LET parsed == parse_duration(fnIn.duration_str)
       IN  fnOut' = [returned |-> TRUE, raised |-> parsed.raised, text |-> parsed.value,
                     seconds |-> duration_to_seconds(parsed.value)]
    /\ UNCHANGED <<fnIn, aggVars, ageVars, anVars>>

ExtractHashtagsCall ==
    /\ fnIn.fn = "extract_hashtags"
    /\ fnOut = NoResult
    /\ fnOut' = [returned |-> TRUE, tags |-> extract_hashtags(fnIn.text)]
    /\ UNCHANGED <<fnIn, aggVars, ageVars, anVars>>

ExtractKeywordsCall ==
    /\ fnIn.fn = "extract_keywords_from_text"
    /\ fnOut = NoResult
    /\ fnOut' = [returned |-> TRUE, keywords |-> extract_keywords_from_text(fnIn.text)]
    /\ UNCHANGED <<fnIn, aggVars, ageVars, anVars>>

NextHelpers ==
    \/ EngagementScoreCall
    \/ AgeRelevanceCall
    \/ TruncateTextCall
    \/ ParseDurationCall
    \/ ExtractHashtagsCall
    \/ ExtractKeywordsCall

SpecHelpers == InitHelpers /\ [][NextHelpers]_vars

(***************************************************************************)
(* The platform collaborators: trending and search of the video platform   *)
(* (youtube_service.py), the short-video platform (tiktok_service.py) and  *)
(* the photo platform (instagram_service.py).  A record carries its        *)
(* platform, id, counters and hashtags.                                    *)
(***************************************************************************)
ContentRecord(platform, id, counters, hashtags) ==
    [platform |-> platform, id |-> id, counters |-> counters, hashtags |-> hashtags]

\* the counters of a TrendResponse and of a SearchResponse
TrendCounters(view, like, comment, share) ==
    [view_count |-> view, like_count |-> like, comment_count |-> comment, share_count |-> share]
SearchCounters(view, like, comment) ==
    [view_count |-> view, like_count |-> like, comment_count |-> comment]

\* snippet.description + ' ' + snippet.title
HashtagSource(video) == video.description \o <<" ">> \o video.title

\* YouTubeService._convert_video_to_trend; raised when parse_duration raises
convert_video_to_trend(video) ==
    [raised |-> parse_duration(video.duration).raised,
     record |-> ContentRecord("youtube", video.id,
                    TrendCounters(safe_int(GetText(video.viewCount)), safe_int(GetText(video.likeCount)),
                                  safe_int(GetText(video.commentCount)), None),
                    extract_hashtags(HashtagSource(video)))]

\* YouTubeService._convert_video_to_search
convert_video_to_search(video) ==
    [raised |-> FALSE,
     record |-> ContentRecord("youtube", video.id,
                    SearchCounters(safe_int(GetText(video.viewCount)), safe_int(GetText(video.likeCount)),
                                   safe_int(GetText(video.commentCount))),
                    extract_hashtags(HashtagSource(video)))]

\* the `for video in videos` loop of get_trending_videos and search_videos,
\* given each video's conversion: a video whose conversion raises is logged
\* and left out
Converted(results) ==
    [i \in 1..Len(SelectSeq(results, LAMBDA r : ~r.raised)) |->
        SelectSeq(results, LAMBDA r : ~r.raised)[i].record]

\* get_trending_videos (trend = TRUE) and search_videos (trend = FALSE) of
\* YouTubeService: api is what the client answers, client tells whether
\* build() gave one
youtube_videos(client, api, trend) ==
    IF ~client \/ api.status # "ok" THEN [raised |-> TRUE, records |-> <<>>]
    ELSE [raised |-> FALSE,
          records |-> Converted([i \in 1..Len(api.items) |->
                          IF trend THEN convert_video_to_trend(api.items[i])
                          ELSE convert_video_to_search(api.items[i])])]

\* TikTokService._get_sample_trending_videos: sample_videos
tiktok_sample_videos ==
    << ContentRecord("tiktok", <<"tiktok_trend_001">>,
           TrendCounters(Some(1500000), Some(85000), Some(3200), Some(1500)),
           <<<<"#","t","r","e","n","d","i","n","g">>, <<"#","v","i","r","a","l">>, <<"#","f","u","n","n","y">>>>),
       ContentRecord("tiktok", <<"tiktok_trend_002">>,
           TrendCounters(Some(1200000), Some(72000), Some(2800), Some(1200)),
           <<<<"#","d","a","n","c","e">>, <<"#","m","u","s","i","c">>, <<"#","t","r","e","n","d","i","n","g">>>>),
       ContentRecord("tiktok", <<"tiktok_trend_003">>,
           TrendCounters(Some(980000), Some(65000), Some(2400), Some(980)),
           <<<<"#","c","o","m","e","d","y">>, <<"#","f","u","n","n","y">>, <<"#","v","i","r","a","l">>>>) >>

\* InstagramService._get_sample_trending_posts: sample_posts
instagram_sample_posts ==
    << ContentRecord("instagram", <<"instagram_trend_001">>,
           TrendCounters(Some(850000), Some(45000), Some(1800), Some(1200)),
           <<<<"#","t","r","e","n","d","i","n","g">>, <<"#","v","i","r","a","l">>, <<"#","i","n","s","t","a","g","r","a","m">>>>),
       ContentRecord("instagram", <<"instagram_trend_002">>,
           TrendCounters(Some(720000), Some(38000), Some(1500), Some(980)),
           <<<<"#","f","a","s","h","i","o","n">>, <<"#","s","t","y","l","e">>, <<"#","t","r","e","n","d","i","n","g">>>>),
       ContentRecord("instagram", <<"instagram_trend_003">>,
           TrendCounters(Some(650000), Some(32000), Some(1200), Some(850)),
           <<<<"#","f","o","o","d">>, <<"#","d","e","l","i","c","i","o","u","s">>, <<"#","v","i","r","a","l">>>>) >>

\* TikTokService._get_sample_search_results: sample_results
tiktok_sample_results(query) ==
    << ContentRecord("tiktok", <<"tiktok_search_">> \o query \o <<"_001">>,
           SearchCounters(Some(850000), Some(45000), Some(1800)),
           <<<<"#">> \o query, <<"#","s","e","a","r","c","h">>, <<"#","v","i","r","a","l">>>>),
       ContentRecord("tiktok", <<"tiktok_search_">> \o query \o <<"_002">>,
           SearchCounters(Some(720000), Some(38000), Some(1500)),
           <<<<"#">> \o query, <<"#","t","r","e","n","d","i","n","g">>, <<"#","f","u","n","n","y">>>>) >>

\* InstagramService._get_sample_search_results: sample_results
instagram_sample_results(query) ==
    << ContentRecord("instagram", <<"instagram_search_">> \o query \o <<"_001">>,
           SearchCounters(Some(450000), Some(25000), Some(800)),
           <<<<"#">> \o query, <<"#","s","e","a","r","c","h">>, <<"#","i","n","s","t","a","g","r","a","m">>>>),
       ContentRecord("instagram", <<"instagram_search_">> \o query \o <<"_002">>,
           SearchCounters(Some(380000), Some(22000), Some(650)),
           <<<<"#">> \o query, <<"#","t","r","e","n","d","i","n","g">>, <<"#","v","i","r","a","l">>>>) >>

\* get_trending_videos of a platform collaborator
get_trending_videos(call) ==
    IF call.platform = "youtube"
    THEN youtube_videos(call.client, call.api, TRUE)
    ELSE [raised |-> FALSE,
          records |-> Take(IF call.platform = "tiktok" THEN tiktok_sample_videos
                           ELSE instagram_sample_posts, call.max_results)]

\* search_videos of a platform collaborator
search_videos(call) ==
    IF call.platform = "youtube"
    THEN youtube_videos(call.client, call.api, FALSE)
    ELSE [raised |-> FALSE,
          records |-> Take(IF call.platform = "tiktok" THEN tiktok_sample_results(call.query)
                           ELSE instagram_sample_results(call.query), call.max_results)]

\* videos().list items: title, description, raw statistics and duration
RawItem(id, title, description, viewCount, likeCount, commentCount, duration) ==
    [id |-> id, title |-> title, description |-> description, viewCount |-> viewCount,
     likeCount |-> likeCount, commentCount |-> commentCount, duration |-> duration]

\* an item with a hashtag in its title and a malformed comment count, one with
\* a negative view count and a mixed-case hashtag in its description, one
\* whose duration cannot be parsed
RawItems ==
    { RawItem("i1", <<"H","i"," ","#","F","u","n">>, <<>>, Some(<<"1","0">>), None, Some(<<"a","b","c">>), <<"P","T","1","M">>),
      RawItem("i2", <<"t">>, <<"#","A","_","b"," ","x">>, Some(<<"-","5">>), Some(<<"3">>), None, <<>>),
      RawItem("i3", <<"g","o">>, <<"#","o","k">>, Some(<<"7">>), Some(<<"1",".","5">>), Some(<<"0">>), <<"P","T","x","M">>) }

MaxRawItems == 2
MaxPlatformResults == 3
SearchQueries == {<<"b","t","s">>, <<"B","T","S">>, <<"k"," ","p","o","p">>, <<>>}

YouTubeAnswers == {Raised} \cup {Answered(items) : items \in SeqsUpTo(RawItems, MaxRawItems)}

CollaboratorCalls ==
    { [fn |-> fn, platform |-> "youtube", client |-> client, api |-> api,
       query |-> query, max_results |-> MaxPlatformResults] :
        fn \in {"get_trending_videos", "search_videos"}, client \in BOOLEAN,
        api \in YouTubeAnswers, query \in {<<"b","t","s">>} }
    \cup
    { [fn |-> fn, platform |-> platform, client |-> FALSE, api |-> Raised,
       query |-> query, max_results |-> max_results] :
        fn \in {"get_trending_videos", "search_videos"}, platform \in {"tiktok", "instagram"},
        query \in SearchQueries, max_results \in 1..MaxPlatformResults }

InitPlatforms ==
    /\ fnIn \in CollaboratorCalls
    /\ fnOut = NoResult
    /\ AggIdle
    /\ AgeIdle
    /\ AnalyzeIdle

TrendingVideosCall ==
    /\ fnIn.fn = "get_trending_videos"
    /\ fnOut = NoResult
    /\ fnOut' = [returned |-> TRUE, raised |-> get_trending_videos(fnIn).raised,
                 records |-> get_trending_videos(fnIn).records]
    /\ UNCHANGED <<fnIn, aggVars, ageVars, anVars>>

SearchVideosCall ==
    /\ fnIn.fn = "search_videos"
    /\ fnOut = NoResult
    /\ fnOut' = [returned |-> TRUE, raised |-> search_videos(fnIn).raised,
                 records |-> search_videos(fnIn).records]
    /\ UNCHANGED <<fnIn, aggVars, ageVars, anVars>>

NextPlatforms ==
    \/ TrendingVideosCall
    \/ SearchVideosCall

SpecPlatforms == InitPlatforms /\ [][NextPlatforms]_vars

(***************************************************************************)
(* main.py: the single-platform routes.  A request names the route and     *)
(* carries the collaborator call it leads to; the response carries the     *)
(* HTTP status and the message of the exception behind it.                 *)
(***************************************************************************)
\* Query(..., ge=1, le=50) of max_results
MinResultsLimit == 1
MaxResultsLimit == 50

\* YouTubeService.get_channel_info: the exception it raises, if any
get_channel_info(client, api) ==
    IF ~client THEN [raised |-> TRUE, message |-> "client not initialised"]
    ELSE IF api.status # "ok" THEN [raised |-> TRUE, message |-> "api error"]
    ELSE IF api.items = <<>> THEN [raised |-> TRUE, message |-> "channel not found"]
    ELSE [raised |-> FALSE, message |-> "none"]

\* the trends and search routes of the three platforms: the framework
\* rejects a max_results outside its limits, every exception of the
\* collaborator becomes HTTPException(status_code=500)
platform_route(request) ==
    IF request.max_results < MinResultsLimit \/ request.max_results > MaxResultsLimit
    THEN [status |-> 422, message |-> "validation error"]
    ELSE IF (IF request.fn = "get_trending_videos" THEN get_trending_videos(request)
             ELSE search_videos(request)).raised
         THEN [status |-> 500, message |-> "collaborator raised"]
         ELSE [status |-> 200, message |-> "none"]

\* get_youtube_channel_info: every exception becomes HTTPException(500)
get_youtube_channel_info(request) ==
    IF get_channel_info(request.client, request.api).raised
    THEN [status |-> 500, message |-> get_channel_info(request.client, request.api).message]
    ELSE [status |-> 200, message |-> "none"]

RouteRequests ==
    { [route |-> "platform"] @@ call : call \in CollaboratorCalls }
    \cup { [route |-> "platform"] @@ [call EXCEPT !.max_results = max_results] :
             call \in {c \in CollaboratorCalls : c.platform # "youtube"},
             max_results \in {MinResultsLimit - 1, MaxResultsLimit, MaxResultsLimit + 1} }
    \cup { [route |-> "channel", fn |-> "get_channel_info", client |-> client, api |-> api] :
             client \in BOOLEAN,
             api \in {Raised, Answered(<<>>), Answered(<<"ch1">>)} }

InitRoutes ==
    /\ fnIn \in RouteRequests
    /\ fnOut = NoResult
    /\ AggIdle
    /\ AgeIdle
    /\ AnalyzeIdle

PlatformRouteRequest ==
    /\ fnIn.route = "platform"
    /\ fnOut = NoResult
    /\ fnOut' = [returned |-> TRUE, status |-> platform_route(fnIn).status,
                 message |-> platform_route(fnIn).message]
    /\ UNCHANGED <<fnIn, aggVars, ageVars, anVars>>

ChannelInfoRequest ==
    /\ fnIn.route = "channel"
    /\ fnOut = NoResult
    /\ fnOut' = [returned |-> TRUE, status |-> get_youtube_channel_info(fnIn).status,
                 message |-> get_youtube_channel_info(fnIn).message]
    /\ UNCHANGED <<fnIn, aggVars, ageVars, anVars>>

NextRoutes ==
    \/ PlatformRouteRequest
    \/ ChannelInfoRequest

SpecRoutes == InitRoutes /\ [][NextRoutes]_vars

(***************************************************************************)
(* google_trends_service.py: the real-time trending searches.  The trends  *)
(* client answers with its table of keywords, answers with a table that    *)
(* has no column 0, or raises.                                             *)
(***************************************************************************)
\* _get_dummy_trending_searches: dummy_keywords
dummy_keywords ==
    << <<"uB274","uC9C4","uC2A4">>,
       <<"uB974","uC138","uB77C","uD54C">>,
       <<"uC544","uC774","uBE0C">>,
       <<"uAC8C","uC784">>,
       <<"uC560","uB2C8","uBA54","uC774","uC158">>,
       <<"uCDE8","uC5C5">>,
       <<"uC774","uB825","uC11C">>,
       <<"uBA74","uC811">>,
       <<"uC2A4","uD0C0","uD2B8","uC5C5">>,
       <<"uD22C","uC790">>,
       <<"uACB0","uD63C">>,
       <<"uC721","uC544">>,
       <<"uC9D1">>,
       <<"uC544","uD30C","uD2B8">>,
       <<"uAC74","uAC15">>,
       <<"uC6B4","uB3D9">>,
       <<"uB2E4","uC774","uC5B4","uD2B8">>,
       <<"uC694","uB9AC">>,
       <<"uC5EC","uD589">>,
       <<"uB9DB","uC9D1">> >>

\* entries numbered from 0
RankedEntriesFromZero(keywords, region, source) ==
    [index \in 1..Len(keywords) |->
        [keyword |-> keywords[index], rank |-> index - 1, region |-> region, source |-> source]]

\* the loop `for index, keyword in enumerate(...)`: rank is index + 1 for the
\* 0-based index of enumerate
RankedEntries(keywords, region, source) ==
    [index \in 1..Len(keywords) |->
        [keyword |-> keywords[index], rank |-> index, region |-> region, source |-> source]]

get_dummy_trending_searches(region) == RankedEntries(dummy_keywords, region, "google_trends_dummy")

\* GoogleTrendsService.get_realtime_trending_searches
get_realtime_trending_searches(client, region) ==
    IF client.status = "ok"
    THEN [raised |-> FALSE, results |-> RankedEntries(client.items, region, "google_trends")]
    ELSE [raised |-> FALSE, results |-> get_dummy_trending_searches(region)]

\* a table without column 0: trending_searches[0] raises
NoColumn == [status |-> "no_column", items |-> <<>>]

MaxTrendKeywords == 3
TrendKeywords == {<<"uD0A4","uC6CC","uB4DC","1">>, <<"uD0A4","uC6CC","uB4DC","2">>, <<"b","t","s">>}
TrendsCalls ==
    { [fn |-> "get_realtime_trending_searches", region |-> region, client |-> client] :
        region \in {"KR", "US"},
        client \in {Raised, NoColumn}
                   \cup {Answered(items) : items \in SeqsUpTo(TrendKeywords, MaxTrendKeywords)} }

InitTrends ==
    /\ fnIn \in TrendsCalls
    /\ fnOut = NoResult
    /\ AggIdle
    /\ AgeIdle
    /\ AnalyzeIdle

RealtimeTrendingSearchesCall ==
    /\ fnIn.fn = "get_realtime_trending_searches"
    /\ fnOut = NoResult
    /\ fnOut' = [returned |-> TRUE,
                 raised |-> get_realtime_trending_searches(fnIn.client, fnIn.region).raised,
                 results |-> get_realtime_trending_searches(fnIn.client, fnIn.region).results]
    /\ UNCHANGED <<fnIn, aggVars, ageVars, anVars>>

NextTrends == RealtimeTrendingSearchesCall

SpecTrends == InitTrends /\ [][NextTrends]_vars

(***************************************************************************)
(* Properties of the age analysis, stated from the records the platforms   *)
(* hold and from the request and the response of the last operation        *)
(***************************************************************************)
\* the records the platforms of a request list hold, in collection order
RECURSIVE HeldRecords(_)
HeldRecords(platforms) ==
    IF platforms = <<>> THEN <<>>
    ELSE (IF Head(platforms) \in KnownPlatforms
          THEN [i \in 1..Len(ageEnv[Head(platforms)].items) |->
                   [platform |-> Head(platforms), record |-> ageEnv[Head(platforms)].items[i]]]
          ELSE <<>>) \o HeldRecords(Tail(platforms))

AllPlatforms == <<"youtube", "tiktok", "instagram">>

\* title and description of a record, lower-cased
TitleAndDescription(record) ==
    Lower(record.title \o <<" ">> \o OrElse(record.description, <<>>))

\* title, description, tags and hashtags of a record, lower-cased
ConcatenatedText(record) ==
    Lower(record.title \o <<" ">> \o OrElse(record.description, <<>>) \o <<" ">>
          \o JoinSpace(OrElse(record.tags, <<>>)) \o <<" ">>
          \o JoinSpace(OrElse(record.hashtags, <<>>)))

\* the held records whose title or description contains the keyword
MatchedRecords(keyword) ==
    SelectSeq(HeldRecords(AllPlatforms),
              LAMBDA h : Contains(TitleAndDescription(h.record), Lower(keyword)))

\* C5: a trends request for an age group without a profile ends in an
\* invalid-argument error (a ValueError, not the plain Exception that other
\* failures of the operation and the collaborators raise), it is not answered
\* with a result, and no platform collaborator was called for it.
C5_UnknownGroupIsInvalidArgument ==
    (ageOut.op = "trends" /\ ageOut.age_group \notin DOMAIN age_group_patterns)
        => /\ ageOut.kind = "error"
           /\ ageOut.raised = "ValueError"
           /\ ageCalls = <<>>

\* C6: the report for a keyword that no record of any platform matches has
\* sentiment_score 0.0, total_mentions 0 and no related keywords.
C6_NoMatchGivesNeutralEmptyReport ==
    (ageOut.op = "keyword" /\ MatchedRecords(ageOut.keyword) = <<>>)
        => /\ ageOut.sentiment_score = FZero
           /\ ageOut.total_mentions = 0
           /\ ageOut.related_keywords = <<>>

\* engagement_score(record) * platform_weight(platform) * profile.weight summed
\* over the held records of the request's platforms whose concatenated text
\* contains the keyword
AffinityScore(age_group, keyword, platforms) ==
    LET held == HeldRecords(platforms)
    IN  FSum([i \in 1..Len(held) |->
                 IF Contains(ConcatenatedText(held[i].record), Lower(keyword))
                 THEN FMul(FMul(calculate_engagement_score(held[i].record),
                                PlatformWeight(held[i].platform)),
                           age_group_patterns[age_group].weight)
                 ELSE FZero],
             FZero)

MatchCount(keyword, platforms) ==
    LET held == HeldRecords(platforms)
    IN  Cardinality({i \in 1..Len(held) :
                        Contains(ConcatenatedText(held[i].record), Lower(keyword))})

\* C7: in the all-groups analysis every reported keyword is a dictionary
\* keyword of its group that at least one collected record matches, its score
\* is the affinity sum over exactly the matching records, at most max_results
\* keywords are reported per group, in non-increasing score order.
C7_ScoresComeFromCollectedRecords ==
    ageOut.op = "groups" =>
        \A i \in 1..Len(ageOut.results) :
            LET result == ageOut.results[i]
                dictionary == age_group_patterns[result.age_group].keywords
            IN  /\ Len(result.keywords) <= ageOut.max_results
                /\ \A j \in 1..Len(result.keywords) :
                      /\ \E d \in 1..Len(dictionary) : dictionary[d] = result.keywords[j].keyword
                      /\ MatchCount(result.keywords[j].keyword, ageOut.platforms) >= 1
                      /\ FInt(result.keywords[j].score) =
                             AffinityScore(result.age_group, result.keywords[j].keyword,
                                           ageOut.platforms)
                /\ \A j \in 1..(Len(result.keywords) - 1) :
                      result.keywords[j].score >= result.keywords[j + 1].score

\* the matched records with a publish timestamp, and those of them published
\* within the last 7 days (published_at is the age in days)
DatedMatches(keyword) ==
    SelectSeq(MatchedRecords(keyword), LAMBDA h : h.record.published_at # None)

RecentMatches(keyword) ==
    SelectSeq(DatedMatches(keyword), LAMBDA h : h.record.published_at[1] <= 7)

\* C8: the trending_trend of a keyword analysis follows the fraction of the
\* dated matched records that are at most 7 days old: above 60% rising (상승),
\* above 30% flat (유지), else falling (하락).
C8_TrendFollowsRecentFraction ==
    (ageOut.op = "keyword" /\ DatedMatches(ageOut.keyword) # <<>>)
        => LET recent == Len(RecentMatches(ageOut.keyword))
               dated == Len(DatedMatches(ageOut.keyword))
           IN  ageOut.trending_trend =
                   IF 10 * recent > 6 * dated THEN "rising"
                   ELSE IF 10 * recent > 3 * dated THEN "flat"
                   ELSE "falling"

\* the platform weights as decimals, in tenths: 1.0, 1.2, 1.1, and 1.0 for a
\* platform without a weight
PlatformWeightTenths(platform) ==
    CASE platform = "tiktok" -> 12
      [] platform = "instagram" -> 11
      [] OTHER -> 10

\* share is floor(total * weight10 / (10 * n)) for total > 0, and 0 for total = 0
IsFlooredShare(share, total, weight10, n) ==
    IF total = 0 THEN share = 0
    ELSE /\ share * 10 * n <= total * weight10
         /\ total * weight10 < (share + 1) * 10 * n

KeywordScoreTotal(result) ==
    SumSeq([j \in 1..Len(result.keywords) |-> result.keywords[j].score])

\* C9 (as the code has it): for every age group the platform distribution has
\* one entry per platform of the request, equal to
\* floor(total_keyword_score * platform_weight / N) with N the number of
\* platforms passed in the request; all entries are 0 when the total is 0.
C9_DistributionDividesByRequestPlatforms ==
    ageOut.op = "groups" =>
        \A i \in 1..Len(ageOut.results) :
            LET result == ageOut.results[i]
                requested == {ageOut.platforms[k] : k \in 1..Len(ageOut.platforms)}
            IN  /\ DOMAIN result.platform_distribution = requested
                /\ \A p \in requested :
                      IsFlooredShare(result.platform_distribution[p], KeywordScoreTotal(result),
                                     PlatformWeightTenths(p), Len(ageOut.platforms))

\* a request with three platforms answered for 40대, whose profile has two,
\* with a positive total
C9_Witness ==
    /\ ageOut.op = "groups"
    /\ Len(ageOut.platforms) = 3
    /\ \E i \in 1..Len(ageOut.results) :
          /\ ageOut.results[i].age_group = "40s"
          /\ Len(age_group_patterns["40s"].platforms) = 2
          /\ KeywordScoreTotal(ageOut.results[i]) > 0
          /\ ageOut.results[i].platform_distribution["tiktok"] > 0

\* C9 as stated: N is the number of platforms configured in the age group's
\* own profile.
C9_DistributionDividesByProfilePlatforms ==
    ageOut.op = "groups" =>
        \A i \in 1..Len(ageOut.results) :
            LET result == ageOut.results[i]
                requested == {ageOut.platforms[k] : k \in 1..Len(ageOut.platforms)}
            IN  \A p \in requested :
                   IsFlooredShare(result.platform_distribution[p], KeywordScoreTotal(result),
                                  PlatformWeightTenths(p),
                                  Len(age_group_patterns[result.age_group].platforms))

\* the number of places where a word occurs in a text
OccurrencesIn(text, word) ==
    Cardinality({i \in 1..(Len(text) - Len(word) + 1) :
                    \A j \in 1..Len(word) : text[i + j - 1] = word[j]})

\* the occurrences of the words of a list in the titles and descriptions of
\* the records that match the keyword
SentimentWordCount(keyword, words) ==
    SumSeq([m \in 1..Len(MatchedRecords(keyword)) |->
               SumSeq([w \in 1..Len(words) |->
                          OccurrencesIn(TitleAndDescription(MatchedRecords(keyword)[m].record),
                                        words[w])])])

\* C18: the sentiment_score of a keyword analysis is (P - N) / (P + N), P and
\* N the occurrences of the positive and the negative words in the matched
\* records' titles and descriptions (to the decimals the score is reported
\* with, two); it lies in [-1, 1], and it is 0 when P + N = 0.
C18_SentimentIsNormalisedWordBalance ==
    ageOut.op = "keyword" =>
        LET P == SentimentWordCount(ageOut.keyword, positive_keywords)
            N == SentimentWordCount(ageOut.keyword, negative_keywords)
        IN  /\ FCmp(ageOut.sentiment_score, FInt(-1)) >= 0
            /\ FCmp(ageOut.sentiment_score, FInt(1)) <= 0
            /\ ageOut.sentiment_score =
                   IF P + N = 0 THEN FZero ELSE Round2(FRatio(P - N, P + N))

(***************************************************************************)
(* Properties of the timeframe analysis                                    *)
(***************************************************************************)
\* the time and form test of the request on a collected row
SurvivesTimeAndForm(r) ==
    /\ r.published_at = None \/ r.published_at[1] <= anReq.timeframe_days * 24
    /\ \/ anReq.form = "both"
       \/ r.duration = None
       \/ (anReq.form = "shorts"
             <=> duration_to_seconds(r.duration[1]) <= anReq.shorts_threshold_seconds)

SurvivingChannelIds ==
    {anHist[1].rows[i].channel_id[1] :
        i \in {j \in 1..Len(anHist[1].rows) :
                  /\ anHist[1].rows[j].channel_id # None
                  /\ SurvivesTimeAndForm(anHist[1].rows[j])}}

IsPrefix(s, t) == Len(s) <= Len(t) /\ \A i \in 1..Len(s) : s[i] = t[i]

\* the number of stages a call standing at position pc has completed
StagesBefore(pc) ==
    CASE pc = "FILTER_BY_TIME_AND_FORM" -> 1
      [] pc = "ENRICH_WITH_CHANNEL_STATS" -> 2
      [] pc = "FILTER_BY_THRESHOLD" -> 3
      [] pc = "RETURN" -> 4
      [] pc = "DONE" -> 5

\* the call can take its next step: a step of the pipeline is enabled; at the
\* enrichment stage, where a step exists when the ids can be cut into chunks
\* and the rows enriched from them, this is stated on the chunks themselves
CanStep ==
    IF anPc = "ENRICH_WITH_CHANNEL_STATS"
    THEN \E chunks \in ChunkSeqs(ChannelIds(anRows)) :
            Len(enrich_with_channel_stats(ytEnv, anRows, chunks)) = Len(anRows)
    ELSE ENABLED NextAnalyze

\* C10: a call of analyze with an initialised client completes the stages
\* COLLECT, FILTER_BY_TIME_AND_FORM, ENRICH_WITH_CHANNEL_STATS,
\* FILTER_BY_THRESHOLD, DONE in that order, each once: wherever the call
\* stands short of DONE it can take its next step, and the stages completed
\* are exactly the ones before that position;
\* every subscriber-count lookup is issued after collection and
\* time/form filtering are complete and carries only channel ids of rows that
\* survived the time/form filter; the threshold filter reads the enriched rows.
C10_StagesRunInOrder ==
    /\ IsPrefix(StagesDone(anHist), AnalyzeStages)
    /\ (ytEnv.client /\ anReq # NoRequest) => anOut.status # "error"
    /\ anPc \notin {"idle", "DONE"} => CanStep
    /\ anPc # "idle" => StagesDone(anHist) = SubSeq(AnalyzeStages, 1, StagesBefore(anPc))
    /\ anPc = "DONE" => StagesDone(anHist) = AnalyzeStages
    /\ \A c \in 1..Len(anCalls) :
          anCalls[c].api = "channels.list" =>
              /\ anCalls[c].done = <<"COLLECT", "FILTER_BY_TIME_AND_FORM">>
              /\ anCalls[c].ids \subseteq SurvivingChannelIds
    /\ Len(anHist) >= 4 =>
          \A i \in 1..Len(anHist[4].rows) :
              \E j \in 1..Len(anHist[3].rows) : anHist[4].rows[i] = anHist[3].rows[j]

\* a finished call whose filter dropped a row, which looked up subscriber
\* counts, and which returned an enriched row
C10_Witness ==
    /\ anPc = "DONE"
    /\ Len(anHist[2].rows) < Len(anHist[1].rows)
    /\ \E c \in 1..Len(anCalls) : anCalls[c].api = "channels.list"
    /\ \E i \in 1..Len(anOut.rows) : anOut.rows[i].subscriber_count # None

\* the handles and keywords the request asks to collect
RequestedHandles ==
    IF anReq.mode \in {"channel", "both"} /\ anReq.channel_handles # None
    THEN anReq.channel_handles[1] ELSE <<>>

RequestedKeywords ==
    IF anReq.mode \in {"keyword", "both"} /\ anReq.keywords # None
    THEN anReq.keywords[1] ELSE <<>>

\* the collection of a handle fails when the handle does not resolve, when the
\* video lookup of its channel raises, or when one of its videos cannot be converted
HandleFails(handle) ==
    \/ ytEnv.resolve[handle] = None
    \/ ytEnv.videos[ytEnv.resolve[handle][1]].status # "ok"
    \/ \E i \in 1..Len(ytEnv.videos[ytEnv.resolve[handle][1]].items) :
          parse_duration(ytEnv.videos[ytEnv.resolve[handle][1]].items[i].duration).raised

KeywordFails(keyword) == ytEnv.search[keyword].status # "ok"

\* the video ids every source that does not fail delivers, in request order
RECURSIVE DeliveredByHandles(_)
DeliveredByHandles(handles) ==
    IF handles = <<>> THEN <<>>
    ELSE (IF HandleFails(Head(handles)) THEN <<>>
          ELSE LET items == ytEnv.videos[ytEnv.resolve[Head(handles)][1]].items
               IN  [i \in 1..Min(Len(items), anReq.max_per_channel) |-> items[i].id])
         \o DeliveredByHandles(Tail(handles))

RECURSIVE DeliveredByKeywords(_)
DeliveredByKeywords(keywords) ==
    IF keywords = <<>> THEN <<>>
    ELSE (IF KeywordFails(Head(keywords)) THEN <<>>
          ELSE LET items == ytEnv.search[Head(keywords)].items
               IN  [i \in 1..Min(Len(items), anReq.max_per_keyword) |-> items[i].id])
         \o DeliveredByKeywords(Tail(keywords))

\* C11: a call of analyze with an initialised client never ends in an error
\* and is not abandoned on the way; the collected rows are exactly the
\* videos of the handles and keywords whose collection did not fail (a failing
\* source contributes none), and when the call is DONE every such row that
\* survives the time/form filter and meets the thresholds is in the result.
C11_FailedSourceIsSkipped ==
    (ytEnv.client /\ anReq # NoRequest) =>
        /\ anOut.status # "error"
        /\ anPc # "DONE" => CanStep
        /\ anPc # "idle" /\ Len(anHist) = StagesBefore(anPc)
        /\ Len(anHist) >= 1 =>
              [i \in 1..Len(anHist[1].rows) |-> anHist[1].rows[i].video_id]
                  = DeliveredByHandles(RequestedHandles) \o DeliveredByKeywords(RequestedKeywords)
        /\ anPc = "DONE" =>
              /\ anOut.status = "ok"
              /\ \A i \in 1..Len(anHist[1].rows) :
                    (SurvivesTimeAndForm(anHist[1].rows[i]) /\ PassesThreshold(anHist[1].rows[i], anReq))
                        => \E j \in 1..Len(anOut.rows) :
                              anOut.rows[j].video_id = anHist[1].rows[i].video_id

\* a finished call in which the first handle did not resolve and a keyword
\* search raised, and which returned rows of a later handle and a later keyword
C11_Witness ==
    /\ anPc = "DONE"
    /\ RequestedHandles = <<"@x", "@a", "@b">>
    /\ RequestedKeywords = <<"k2", "k1">>
    /\ HandleFails("@x") /\ KeywordFails("k2")
    /\ \E j \in 1..Len(anOut.rows) : anOut.rows[j].video_id = "v4"
    /\ \E j \in 1..Len(anOut.rows) : anOut.rows[j].video_id = "s1"

\* the rows entering and leaving FILTER_BY_THRESHOLD
EnrichedRows == anHist[3].rows
ThresholdRows == anHist[4].rows

IsRowOf(row, rows) == \E i \in 1..Len(rows) : rows[i] = row

\* C12 (as the code has it): every output row has a non-null view_count >=
\* min_view_count and a views_per_hour that, read as 0 when it is null, is >=
\* min_views_per_hour; a row with a null view_count is never in the output,
\* also for min_view_count = 0; every enriched row that meets both conditions
\* is in the output, and the response carries exactly these rows.
C12_ThresholdReadsNullRateAsZero ==
    Len(anHist) >= 4 =>
        /\ \A i \in 1..Len(ThresholdRows) :
              /\ ThresholdRows[i].view_count # None
              /\ ThresholdRows[i].view_count[1] >= anReq.min_view_count
              /\ IF ThresholdRows[i].views_per_hour = None
                 THEN FCmp(FZero, anReq.min_views_per_hour) >= 0
                 ELSE FCmp(ThresholdRows[i].views_per_hour[1], anReq.min_views_per_hour) >= 0
        /\ \A i \in 1..Len(EnrichedRows) :
              ( /\ EnrichedRows[i].view_count # None
                /\ EnrichedRows[i].view_count[1] >= anReq.min_view_count
                /\ \/ /\ EnrichedRows[i].views_per_hour = None
                      /\ FCmp(FZero, anReq.min_views_per_hour) >= 0
                   \/ /\ EnrichedRows[i].views_per_hour # None
                      /\ FCmp(EnrichedRows[i].views_per_hour[1], anReq.min_views_per_hour) >= 0 )
              <=> IsRowOf(EnrichedRows[i], ThresholdRows)
        /\ anPc = "DONE" => anOut.rows = ThresholdRows

\* a finished call with min_view_count = 0 that dropped a row without view
\* count and returned a row without views_per_hour
C12_Witness ==
    /\ anPc = "DONE"
    /\ anReq.min_view_count = 0
    /\ \E i \in 1..Len(EnrichedRows) : EnrichedRows[i].view_count = None
    /\ \E i \in 1..Len(anOut.rows) : anOut.rows[i].views_per_hour = None

\* C12 as stated: every output row has a views_per_hour, and it is >=
\* min_views_per_hour.
C12_OutputRowsHaveRateAboveMinimum ==
    Len(anHist) >= 4 =>
        \A i \in 1..Len(ThresholdRows) :
            /\ ThresholdRows[i].view_count # None
            /\ ThresholdRows[i].view_count[1] >= anReq.min_view_count
            /\ ThresholdRows[i].views_per_hour # None
            /\ FCmp(ThresholdRows[i].views_per_hour[1], anReq.min_views_per_hour) >= 0

\* a duration text of the form M:SS or H:MM:SS, and the seconds it stands for
DurationParts(duration) == Split(duration, ":")

\* a text of one or more of the digits 0..9
IsDigitText(t) == t # <<>> /\ \A i \in 1..Len(t) : IsAsciiDigit(t[i])

IsParsableDuration(duration) ==
    /\ duration # None
    /\ duration[1] # <<>>
    /\ Len(DurationParts(duration[1])) \in {2, 3}
    /\ \A i \in 1..Len(DurationParts(duration[1])) : IsDigitText(DurationParts(duration[1])[i])

RECURSIVE SecondsOfParts(_)
SecondsOfParts(parts) ==
    IF parts = <<>> THEN 0
    ELSE DigitsValue(parts[Len(parts)]) + 60 * SecondsOfParts(SubSeq(parts, 1, Len(parts) - 1))

WithinTimeframe(r) ==
    r.published_at = None \/ r.published_at[1] <= anReq.timeframe_days * 24

\* C13: of the collected rows inside the timeframe, FILTER_BY_TIME_AND_FORM
\* keeps one with a parsable duration under form shorts only if its seconds
\* are <= the shorts threshold and under form long only if they are greater,
\* and it keeps every row whose duration is absent, empty or not parsable,
\* whatever the form.
C13_UnknownDurationPassesFormFilter ==
    Len(anHist) >= 2 =>
        \A i \in 1..Len(anHist[1].rows) :
            LET r == anHist[1].rows[i]
            IN  WithinTimeframe(r) =>
                    IF IsParsableDuration(r.duration)
                    THEN IsRowOf(r, anHist[2].rows)
                             <=> \/ anReq.form = "both"
                                 \/ /\ anReq.form = "shorts"
                                    /\ SecondsOfParts(DurationParts(r.duration[1]))
                                           <= anReq.shorts_threshold_seconds
                                 \/ /\ anReq.form = "long"
                                    /\ SecondsOfParts(DurationParts(r.duration[1]))
                                           > anReq.shorts_threshold_seconds
                    ELSE IsRowOf(r, anHist[2].rows)

\* the subscriber-count calls of the request, in the order they were issued
StatsCallsMade == SelectSeq(anCalls, LAMBDA call : call.api = "channels.list")

\* the distinct non-null channel ids of the rows that survived the time/form filter
SurvivorChannels ==
    {anHist[2].rows[i].channel_id[1] :
        i \in {j \in 1..Len(anHist[2].rows) : anHist[2].rows[j].channel_id # None}}

\* the numbers of the calls that carried a channel id
CallsCarrying(cid) == {c \in 1..Len(StatsCallsMade) : cid \in StatsCallsMade[c].ids}

\* C14: once enrichment has run, every distinct non-null channel id of the
\* surviving rows was sent in exactly one subscriber-count call, every call
\* carries between 1 and 50 of these ids, and the call does not end in an
\* error; a row whose channel was in a call that raised (or has no channel)
\* keeps subscriber_count and view_to_subscriber_ratio null, a row whose
\* channel was answered by a call that did not raise carries the answered
\* subscriber count, and no other field of a row is changed.
C14_ChunkedLookupSurvivesFailure ==
    Len(anHist) >= 3 =>
      LET calls == StatsCallsMade
          survivors == SurvivorChannels
          carrying == [cid \in survivors |-> {c \in 1..Len(calls) : cid \in calls[c].ids}]
      IN
        /\ anOut.status # "error"
        /\ \A cid \in survivors : Cardinality(carrying[cid]) = 1
        /\ \A c \in 1..Len(calls) :
              /\ calls[c].ids \subseteq survivors
              /\ Cardinality(calls[c].ids) \in 1..50
        /\ Len(anHist[3].rows) = Len(anHist[2].rows)
        /\ \A i \in 1..Len(anHist[2].rows) :
              LET before == anHist[2].rows[i]
                  after == anHist[3].rows[i]
              IN  /\ [after EXCEPT !.subscriber_count = None,
                                   !.view_to_subscriber_ratio = None] = before
                  /\ IF \/ before.channel_id = None
                        \/ carrying[before.channel_id[1]] \subseteq ytEnv.stats.raises
                     THEN /\ after.subscriber_count = None
                          /\ after.view_to_subscriber_ratio = None
                     ELSE before.channel_id[1] \in DOMAIN ytEnv.stats.subs
                              => after.subscriber_count
                                     = safe_int(GetText(ytEnv.stats.subs[before.channel_id[1]]))

\* a finished call that made two subscriber-count calls of which the second
\* raised, the second carrying a channel from the middle of the request, and
\* returned rows with and rows without a subscriber count
C14_Witness ==
    /\ anPc = "DONE"
    /\ Len(StatsCallsMade) = 2
    /\ ytEnv.stats.raises = {2}
    /\ StatsCallsMade[2].ids = {ChannelOf(20)}
    /\ \E i \in 1..Len(anOut.rows) : anOut.rows[i].subscriber_count = Some(1000)
    /\ \E i \in 1..Len(anOut.rows) :
          /\ anOut.rows[i].subscriber_count = None
          /\ CallsCarrying(anOut.rows[i].channel_id[1]) = {2}

\* C15: after any sequence of requests to the age-analysis service the static
\* configuration is what it was at construction (the curated keyword tables
\* are the part of it the service holds in a field it can write), and the
\* result of an all-groups analysis is the one the initial configuration gives,
\* whatever requests ran before.
C15_ConfigurationIsNeverWritten ==
    /\ popular = PopularKeywords
    /\ ageOut.op = "groups" =>
           ageOut.results = [i \in 1..Len(AgeGroups) |->
                                AgeGroupKeywordResponse(PopularKeywords, AgeGroups[i],
                                                        ageOut.max_results, ageOut.platforms)]

(***************************************************************************)
(* Properties of the pure helpers                                          *)
(***************************************************************************)
\* 0.1*views + 0.3*likes + 0.4*comments + 0.2*shares of a record as a decimal,
\* in tenths, a null counter counting as 0
ExactWeightedTenths(trend) ==
    (IF trend.view_count = None THEN 0 ELSE trend.view_count[1])
    + 3 * (IF trend.like_count = None THEN 0 ELSE trend.like_count[1])
    + 4 * (IF trend.comment_count = None THEN 0 ELSE trend.comment_count[1])
    + 2 * (IF trend.share_count = None THEN 0 ELSE trend.share_count[1])

\* the records that differ from trend in one counter, which is not smaller
RaisedInOneCounter(trend) ==
    UNION { { [trend EXCEPT ![field] = Some(k)] :
                k \in {n \in CounterNumbers : n >= OrElse(trend[field], 0)} } :
            field \in {"view_count", "like_count", "comment_count", "share_count"} }

FAbs(x) == [x EXCEPT !.s = IF @ = 0 THEN 0 ELSE 1]

\* the float x is the decimal n / d up to the rounding of double arithmetic:
\* a relative error of at most 2^-50
IsDecimal(x, n, d) ==
    FCmp(FAbs(FSub(x, FRatio(n, d))),
         FMul(FAbs(FRatio(n, d)), [s |-> 1, m |-> <<1>>, e |-> -50])) <= 0

\* C16: engagement_score is min(0.1*views + 0.3*likes + 0.4*comments +
\* 0.2*shares, 1000) with null counters read as 0, the sum taken in doubles
\* from left to right, which is the decimal sum up to the rounding of the
\* doubles; it lies in [0, 1000] and does not decrease when one counter is
\* raised and the others are kept.
C16_EngagementIsCappedWeightedSum ==
    (fnIn.fn = "calculate_engagement_score" /\ fnOut.returned) =>
        /\ fnOut.value =
              FMin(FAdd(FAdd(FAdd(FMul(FInt(OrElse(fnIn.trend.view_count, 0)), FRatio(1, 10)),
                                  FMul(FInt(OrElse(fnIn.trend.like_count, 0)), FRatio(3, 10))),
                             FMul(FInt(OrElse(fnIn.trend.comment_count, 0)), FRatio(4, 10))),
                        FMul(FInt(OrElse(fnIn.trend.share_count, 0)), FRatio(2, 10))),
                   FInt(1000))
        /\ IsDecimal(fnOut.value, Min(ExactWeightedTenths(fnIn.trend), 10000), 10)
        /\ FCmp(fnOut.value, FZero) >= 0
        /\ FCmp(fnOut.value, FInt(1000)) <= 0
        /\ \A raised \in RaisedInOneCounter(fnIn.trend) :
              FCmp(calculate_engagement_score(raised), fnOut.value) >= 0

\* a record with a null counter whose weighted sum is above the limit, and one
\* whose weighted sum, 500, is not what the doubles add up to
C16_Witness ==
    /\ fnIn.fn = "calculate_engagement_score" /\ fnOut.returned
    /\ \/ /\ fnIn.trend.share_count = None
          /\ ExactWeightedTenths(fnIn.trend) > 10000
          /\ fnOut.value = FInt(1000)
       \/ /\ ExactWeightedTenths(fnIn.trend) = 5000
          /\ fnOut.value # FInt(500)

\* the dictionary entries of a group that equal the keyword, and those that
\* contain it or are contained in it, both without regard to case
EqualEntries(keyword, age_group) ==
    {d \in 1..Len(age_group_patterns[age_group].keywords) :
        Lower(age_group_patterns[age_group].keywords[d]) = Lower(keyword)}

OverlappingEntries(keyword, age_group) ==
    {d \in 1..Len(age_group_patterns[age_group].keywords) :
        \/ Contains(Lower(age_group_patterns[age_group].keywords[d]), Lower(keyword))
        \/ Contains(Lower(keyword), Lower(age_group_patterns[age_group].keywords[d]))}

\* the profile weights as decimals, in tenths
ProfileWeightTenths == ("10s" :> 10 @@ "20s" :> 12 @@ "30s" :> 11 @@ "40s" :> 9 @@ "50s+" :> 8)

\* C17: relevance_score is exactly the double product profile.weight*100
\* when the keyword equals a dictionary entry of the group case-insensitively,
\* exactly profile.weight*50 when it equals none but contains or is contained
\* in one, and exactly 10.0 otherwise; the products are the decimal ones up
\* to the rounding of one double multiplication.
C17_RelevanceByDictionaryMatch ==
    (fnIn.fn = "calculate_age_relevance" /\ fnOut.returned) =>
        IF EqualEntries(fnIn.keyword, fnIn.age_group) # {}
        THEN /\ fnOut.value = FMul(FRatio(ProfileWeightTenths[fnIn.age_group], 10), FInt(100))
             /\ IsDecimal(fnOut.value, ProfileWeightTenths[fnIn.age_group] * 100, 10)
        ELSE IF OverlappingEntries(fnIn.keyword, fnIn.age_group) # {}
        THEN /\ fnOut.value = FMul(FRatio(ProfileWeightTenths[fnIn.age_group], 10), FInt(50))
             /\ IsDecimal(fnOut.value, ProfileWeightTenths[fnIn.age_group] * 50, 10)
        ELSE fnOut.value = FInt(10)

\* a keyword that contains a dictionary entry of the group, is part of none
\* and equals none
C17_Witness ==
    /\ fnIn.fn = "calculate_age_relevance" /\ fnOut.returned
    /\ EqualEntries(fnIn.keyword, fnIn.age_group) = {}
    /\ \E d \in OverlappingEntries(fnIn.keyword, fnIn.age_group) :
          Contains(Lower(fnIn.keyword), Lower(age_group_patterns[fnIn.age_group].keywords[d]))
    /\ \A d \in OverlappingEntries(fnIn.keyword, fnIn.age_group) :
          ~Contains(Lower(age_group_patterns[fnIn.age_group].keywords[d]), Lower(fnIn.keyword))
    /\ IsDecimal(fnOut.value, ProfileWeightTenths[fnIn.age_group] * 50, 10)
    /\ fnOut.value # FInt(10)

EllipsisMarker == <<".", ".", ".">>

\* C19: truncate_text returns the text unchanged when its length is <= the
\* max length, and otherwise a prefix of the text followed by the ellipsis
\* marker; in both cases the returned text is no longer than the max length.
C19_TruncatedTextFitsMaxLength ==
    (fnIn.fn = "truncate_text" /\ fnOut.returned) =>
        /\ Len(fnIn.text) <= fnIn.max_length => fnOut.text = fnIn.text
        /\ Len(fnIn.text) > fnIn.max_length =>
              \E k \in 0..Len(fnIn.text) : fnOut.text = SubSeq(fnIn.text, 1, k) \o EllipsisMarker
        /\ Len(fnOut.text) <= fnIn.max_length

\* C20: a duration of h hours, m minutes and s seconds (0 <= h <= 99, m and s
\* below 60) written as PT..H..M..S, a component that is 0 written or left
\* out, is normalised by parse_duration without an error to H:MM:SS when h >
\* 0 and to M:SS when h = 0, and converting that text back gives
\* 3600h + 60m + s seconds; the empty duration normalises to the empty text.
C20_DurationRoundTrip ==
    (fnIn.fn = "parse_duration" /\ fnOut.returned) =>
        /\ ~fnOut.raised
        /\ IF fnIn.duration_str = <<>> THEN fnOut.text = <<>>
           ELSE LET parts == Split(fnOut.text, ":")
                IN  /\ fnOut.seconds = 3600 * fnIn.hours + 60 * fnIn.minutes + fnIn.seconds
                    /\ \A i \in 1..Len(parts) : IsDigitText(parts[i])
                    /\ Len(parts) = IF fnIn.hours > 0 THEN 3 ELSE 2
                    /\ \A i \in 2..Len(parts) : Len(parts[i]) = 2

\* one hour and nine seconds, the minutes left out
C20_Witness ==
    /\ fnIn.fn = "parse_duration" /\ fnOut.returned
    /\ fnIn.duration_str = <<"P", "T", "1", "H", "9", "S">>
    /\ fnOut.text = <<"1", ":", "0", "0", ":", "0", "9">>
    /\ fnOut.seconds = 3609

\* a hashtag of T: '#' at i, word characters from i + 1 to j, no word
\* character after j
IsHashtagAt(T, i, j) ==
    /\ T[i] = "#"
    /\ j > i
    /\ \A k \in (i + 1)..j : IsWordChar(T[k])
    /\ j = Len(T) \/ ~IsWordChar(T[j + 1])

HashtagStarts(T) == {i \in 1..Len(T) : \E j \in i..Len(T) : IsHashtagAt(T, i, j)}

\* the upper-case letters (category Lu): <<first, last, step>> stands for
\* first, first + step, .. last
UpperCaseRuns == <<
    <<65,90,1>>, <<192,214,1>>, <<216,222,1>>, <<256,310,2>>, <<313,327,2>>,
    <<330,376,2>>, <<377,381,2>>, <<385,386,1>>, <<388,390,2>>, <<391,393,2>>,
    <<394,395,1>>, <<398,401,1>>, <<403,404,1>>, <<406,408,1>>, <<412,413,1>>,
    <<415,416,1>>, <<418,422,2>>, <<423,425,2>>, <<428,430,2>>, <<431,433,2>>,
    <<434,435,1>>, <<437,439,2>>, <<440,440,1>>, <<444,444,1>>, <<452,452,1>>,
    <<455,455,1>>, <<458,458,1>>, <<461,475,2>>, <<478,494,2>>, <<497,497,1>>,
    <<500,502,2>>, <<503,504,1>>, <<506,562,2>>, <<570,571,1>>, <<573,574,1>>,
    <<577,579,2>>, <<580,582,1>>, <<584,590,2>>, <<880,882,2>>, <<886,886,1>>,
    <<895,895,1>>, <<902,904,2>>, <<905,906,1>>, <<908,910,2>>, <<911,913,2>>,
    <<914,929,1>>, <<931,939,1>>, <<975,975,1>>, <<978,980,1>>, <<984,1006,2>>,
    <<1012,1012,1>>, <<1015,1017,2>>, <<1018,1018,1>>, <<1021,1071,1>>, <<1120,1152,2>>,
    <<1162,1216,2>>, <<1217,1229,2>>, <<1232,1326,2>>, <<1329,1366,1>>, <<4256,4293,1>>,
    <<4295,4295,1>>, <<4301,4301,1>>, <<5024,5109,1>>, <<7312,7354,1>>, <<7357,7359,1>>,
    <<7680,7828,2>>, <<7838,7934,2>>, <<7944,7951,1>>, <<7960,7965,1>>, <<7976,7983,1>>,
    <<7992,7999,1>>, <<8008,8013,1>>, <<8025,8031,2>>, <<8040,8047,1>>, <<8120,8123,1>>,
    <<8136,8139,1>>, <<8152,8155,1>>, <<8168,8172,1>>, <<8184,8187,1>>, <<8450,8450,1>>,
    <<8455,8455,1>>, <<8459,8461,1>>, <<8464,8466,1>>, <<8469,8469,1>>, <<8473,8477,1>>,
    <<8484,8490,2>>, <<8491,8493,1>>, <<8496,8499,1>>, <<8510,8511,1>>, <<8517,8517,1>>,
    <<8579,8579,1>>, <<11264,11311,1>>, <<11360,11362,2>>, <<11363,11364,1>>, <<11367,11373,2>>,
    <<11374,11376,1>>, <<11378,11378,1>>, <<11381,11381,1>>, <<11390,11392,1>>, <<11394,11490,2>>,
    <<11499,11501,2>>, <<11506,11506,1>>, <<42560,42604,2>>, <<42624,42650,2>>, <<42786,42798,2>>,
    <<42802,42862,2>>, <<42873,42877,2>>, <<42878,42886,2>>, <<42891,42893,2>>, <<42896,42898,2>>,
    <<42902,42922,2>>, <<42923,42926,1>>, <<42928,42932,1>>, <<42934,42948,2>>, <<42949,42951,1>>,
    <<42953,42953,1>>, <<42960,42960,1>>, <<42966,42968,2>>, <<42997,42997,1>>, <<65313,65338,1>>,
    <<66560,66599,1>>, <<66736,66771,1>>, <<66928,66938,1>>, <<66940,66954,1>>, <<66956,66962,1>>,
    <<66964,66965,1>>, <<68736,68786,1>>, <<71840,71871,1>>, <<93760,93791,1>>, <<119808,119833,1>>,
    <<119860,119885,1>>, <<119912,119937,1>>, <<119964,119966,2>>, <<119967,119967,1>>, <<119970,119970,1>>,
    <<119973,119974,1>>, <<119977,119980,1>>, <<119982,119989,1>>, <<120016,120041,1>>, <<120068,120069,1>>,
    <<120071,120074,1>>, <<120077,120084,1>>, <<120086,120092,1>>, <<120120,120121,1>>, <<120123,120126,1>>,
    <<120128,120132,1>>, <<120134,120134,1>>, <<120138,120144,1>>, <<120172,120197,1>>, <<120224,120249,1>>,
    <<120276,120301,1>>, <<120328,120353,1>>, <<120380,120405,1>>, <<120432,120457,1>>, <<120488,120512,1>>,
    <<120546,120570,1>>, <<120604,120628,1>>, <<120662,120686,1>>, <<120720,120744,1>>, <<120778,120778,1>>,
    <<125184,125217,1>> >>

IsUpperCaseLetter(c) ==
    LET n == CodePoint(c)
        r == RowAtOrBelow(UpperCaseRuns, n, 1, Len(UpperCaseRuns))
    IN  r > 0 /\ n <= UpperCaseRuns[r][2] /\ (n - UpperCaseRuns[r][1]) % UpperCaseRuns[r][3] = 0

\* the returned tags are the hashtags of T in order of appearance, duplicates
\* kept, each lower-cased
AreLoweredHashtagsOf(tags, T) ==
    LET starts == HashtagStarts(T)
    IN  /\ Len(tags) = Cardinality(starts)
        /\ \A i \in starts :
              LET k == Cardinality({x \in starts : x < i}) + 1
                  j == CHOOSE j \in i..Len(T) : IsHashtagAt(T, i, j)
              IN  tags[k] = Lower(SubSeq(T, i, j))

\* C21 as stated: extract_hashtags(T) returns, in order of appearance and
\* with duplicates kept, exactly the substrings of T made of '#' and the word
\* characters that follow it, each lower-cased; each returned string starts
\* with '#' and has no upper-case letter, and a text without such a substring
\* gives the empty list.
C21_HashtagsAreLoweredMatchesInOrder ==
    (fnIn.fn = "extract_hashtags" /\ fnOut.returned) =>
        /\ AreLoweredHashtagsOf(fnOut.tags, fnIn.text)
        /\ \A k \in 1..Len(fnOut.tags) :
              /\ fnOut.tags[k][1] = "#"
              /\ \A n \in 1..Len(fnOut.tags[k]) : ~IsUpperCaseLetter(fnOut.tags[k][n])

\* C21 (as the code has it): the same, but of the upper-case letters only
\* those that have a lower-case form are gone: each returned string starts
\* with '#' and is its own lower-casing.
C21_HashtagsAreTheirOwnLowerCasing ==
    (fnIn.fn = "extract_hashtags" /\ fnOut.returned) =>
        /\ AreLoweredHashtagsOf(fnOut.tags, fnIn.text)
        /\ \A k \in 1..Len(fnOut.tags) :
              /\ fnOut.tags[k][1] = "#"
              /\ Lower(fnOut.tags[k]) = fnOut.tags[k]
              /\ \A n \in 1..Len(fnOut.tags[k]) :
                    IsUpperCaseLetter(fnOut.tags[k][n])
                        => LowerChar(fnOut.tags[k], n) = <<fnOut.tags[k][n]>>

\* an upper-case hashtag and one of a mathematical bold capital A, which has
\* no lower-case form: the first is returned lower-cased, the second as it is
C21_Witness ==
    /\ fnIn.fn = "extract_hashtags" /\ fnOut.returned
    /\ fnIn.text = <<"#", "A", "#", "u1D400">>
    /\ fnOut.tags = << <<"#", "a">>, <<"#", "u1D400">> >>

(***************************************************************************)
(* Properties of the platform collaborators                                *)
(***************************************************************************)
\* the records a trending or search call of a collaborator returned
ReturnedRecords ==
    IF fnIn.fn \in {"get_trending_videos", "search_videos"} /\ fnOut.returned /\ ~fnOut.raised
    THEN {fnOut.records[i] : i \in 1..Len(fnOut.records)}
    ELSE {}

\* the raw statistics of the videos().list item a returned record was built from
RawCountersOf(record) ==
    LET video == CHOOSE v \in {fnIn.api.items[i] : i \in 1..Len(fnIn.api.items)} :
                     v.id = record.id
    IN  [view_count |-> video.viewCount, like_count |-> video.likeCount,
         comment_count |-> video.commentCount, share_count |-> None]

\* C22: in every record a collaborator's trending or search operation
\* returns, each counter is null or a non-negative integer, and a raw counter
\* that is missing or is not the text of an integer has become null.
C22_CountersAreNullOrNonNegative ==
    \A record \in ReturnedRecords :
        \A counter \in DOMAIN record.counters :
            /\ record.counters[counter] = None \/ record.counters[counter][1] >= 0
            /\ (record.platform = "youtube"
                  /\ (RawCountersOf(record)[counter] = None
                        \/ ParseInt(RawCountersOf(record)[counter][1]) = None))
               => record.counters[counter] = None

\* C23: every hashtag of every record a collaborator returns, from trending
\* or from search with any query, starts with '#' and is lower-cased.
C23_HashtagsAreLowerCasedAndPrefixed ==
    \A record \in ReturnedRecords :
        \A k \in 1..Len(record.hashtags) :
            /\ record.hashtags[k] # <<>>
            /\ record.hashtags[k][1] = "#"
            /\ record.hashtags[k] = Lower(record.hashtags[k])

(***************************************************************************)
(* Properties of the single-platform routes                                *)
(***************************************************************************)
\* C24: an error that reaches the facade is mapped by its kind: a failure of
\* the collaborator gives a 5xx response, an invalid argument or a channel
\* that is not found gives a 4xx response and never a 5xx.
C24_ErrorsAreMappedByKind ==
    ("route" \in DOMAIN fnIn /\ fnOut.returned) =>
        /\ fnOut.message \in {"collaborator raised", "client not initialised", "api error"}
              => fnOut.status \in 500..599
        /\ fnOut.message \in {"validation error", "channel not found"}
              => fnOut.status \in 400..499

\* a maximal run of Hangul syllables, Latin letters or digits from i to j
IsMaximalRun(T, i, j) ==
    /\ \A k \in i..j : IsKeywordChar(T[k])
    /\ i = 1 \/ ~IsKeywordChar(T[i - 1])
    /\ j = Len(T) \/ ~IsKeywordChar(T[j + 1])

\* where the runs of length >= 2 that are no stop words start
KeywordStarts(T) ==
    {i \in 1..Len(T) : \E j \in (i + 1)..Len(T) :
        IsMaximalRun(T, i, j) /\ Lower(SubSeq(T, i, j)) \notin stop_words}

\* a record with empty title and description contributes no keyword
EmptyRecordGivesNoKeyword(T, keywords) ==
    \A description \in {None, Some(<<>>)} :
        T = TrendText(Trend(<<>>, description, None)) => keywords = <<>>

\* C25 as stated: the keyword extractor returns, in order of appearance and
\* with duplicates kept, exactly the lower-cased maximal runs of Hangul
\* syllables, Latin letters or digits of the text that have at least two
\* characters and are no stop words; an empty text or one without such a run
\* gives the empty sequence, as does the text of a record with empty title
\* and description.
C25_KeywordsAreLoweredRunsInOrder ==
    (fnIn.fn = "extract_keywords_from_text" /\ fnOut.returned) =>
        LET T == fnIn.text
            starts == KeywordStarts(T)
        IN  /\ Len(fnOut.keywords) = Cardinality(starts)
            /\ \A i \in starts :
                  LET k == Cardinality({x \in starts : x < i}) + 1
                      j == CHOOSE j \in (i + 1)..Len(T) : IsMaximalRun(T, i, j)
                  IN  fnOut.keywords[k] = Lower(SubSeq(T, i, j))
            /\ EmptyRecordGivesNoKeyword(T, fnOut.keywords)

\* C25 (as the code has it): the runs are those of the lower-cased text, in
\* which a character outside the class may have become a letter of it (the
\* Kelvin sign becomes k, the dotted capital I becomes i and a combining dot).
C25_KeywordsAreRunsOfLoweredText ==
    (fnIn.fn = "extract_keywords_from_text" /\ fnOut.returned) =>
        LET L == Lower(fnIn.text)
            starts == {i \in 1..Len(L) : \E j \in (i + 1)..Len(L) :
                          IsMaximalRun(L, i, j) /\ SubSeq(L, i, j) \notin stop_words}
        IN  /\ Len(fnOut.keywords) = Cardinality(starts)
            /\ \A i \in starts :
                  LET k == Cardinality({x \in starts : x < i}) + 1
                      j == CHOOSE j \in (i + 1)..Len(L) : IsMaximalRun(L, i, j)
                  IN  fnOut.keywords[k] = SubSeq(L, i, j)
            /\ EmptyRecordGivesNoKeyword(fnIn.text, fnOut.keywords)

\* a letter and a Kelvin sign, then a stop word in upper case: the first is a
\* keyword once lower-cased, the second is dropped
C25_Witness ==
    /\ fnIn.fn = "extract_keywords_from_text" /\ fnOut.returned
    /\ fnIn.text = <<"o", "u212A", " ", "o", "R">>
    /\ fnOut.keywords = << <<"o", "k">> >>

(***************************************************************************)
(* Properties of the real-time trending searches                           *)
(***************************************************************************)
\* C26: the real-time trending-search operation never fails: when the trends
\* client raises it returns a non-empty fallback list, and every list it
\* returns, live or fallback, carries the ranks 1, 2, 3, ... in list order,
\* a live list holding the client's keywords in the client's order.
C26_TrendingSearchesNeverFail ==
    (fnIn.fn = "get_realtime_trending_searches" /\ fnOut.returned) =>
        /\ ~fnOut.raised
        /\ fnIn.client.status # "ok" => fnOut.results # <<>>
        /\ \A i \in 1..Len(fnOut.results) : fnOut.results[i].rank = i
        /\ fnIn.client.status = "ok" =>
              /\ Len(fnOut.results) = Len(fnIn.client.items)
              /\ \A i \in 1..Len(fnOut.results) :
                    fnOut.results[i].keyword = fnIn.client.items[i]

\* the client raises and the fallback list of twenty keywords comes back
C26_Witness ==
    /\ fnIn.fn = "get_realtime_trending_searches" /\ fnOut.returned
    /\ fnIn.client.status = "raised"
    /\ Len(fnOut.results) = 20
    /\ fnOut.results[1].keyword = <<"uB274","uC9C4","uC2A4">>
    /\ fnOut.results[20].rank = 20

\* the rows entering ENRICH_WITH_CHANNEL_STATS
SurvivingRows == anHist[2].rows

\* a row with its two enrichment fields emptied
WithoutEnrichment(row) ==
    [row EXCEPT !.subscriber_count = None, !.view_to_subscriber_ratio = None]

\* C27: enrichment adds, removes and reorders no rows and changes no field of
\* a row other than subscriber_count and view_to_subscriber_ratio, which it
\* fills in; view_to_subscriber_ratio is non-null only in a row whose
\* subscriber_count and view_count are both non-null.
C27_EnrichmentOnlyFillsItsTwoFields ==
    Len(anHist) >= 3 =>
        /\ Len(EnrichedRows) = Len(SurvivingRows)
        /\ \A i \in 1..Len(EnrichedRows) :
              /\ SurvivingRows[i].subscriber_count = None
              /\ SurvivingRows[i].view_to_subscriber_ratio = None
              /\ WithoutEnrichment(EnrichedRows[i]) = SurvivingRows[i]
              /\ EnrichedRows[i].view_to_subscriber_ratio # None
                    => /\ EnrichedRows[i].subscriber_count # None
                       /\ EnrichedRows[i].view_count # None

\* enrichment of two rows: one got subscriber count and ratio, the other,
\* without view count, got the subscriber count alone
C27_Witness ==
    /\ Len(anHist) >= 3
    /\ \E i, j \in 1..Len(EnrichedRows) :
          /\ EnrichedRows[i].subscriber_count # None
          /\ EnrichedRows[i].view_to_subscriber_ratio # None
          /\ EnrichedRows[j].subscriber_count # None
          /\ EnrichedRows[j].view_count = None
          /\ EnrichedRows[j].view_to_subscriber_ratio = None

\* the rows entering FILTER_BY_TIME_AND_FORM
CollectedRows == anHist[1].rows

\* the form test as the filter applies it: a duration that is present counts
\* with its seconds, 0 if it has none to read
PassesFormFilter(r) ==
    \/ anReq.form = "both"
    \/ r.duration = None
    \/ LET seconds == IF IsParsableDuration(r.duration)
                      THEN SecondsOfParts(DurationParts(r.duration[1])) ELSE 0
       IN  anReq.form = "shorts" <=> seconds <= anReq.shorts_threshold_seconds

\* C28: after FILTER_BY_TIME_AND_FORM every surviving row has published_at
\* null or not older than now - timeframe_days; every collected row that is
\* not older than that bound and passes the form filter survives; a row older
\* than the bound is dropped whatever form is requested.
C28_TimeFilterKeepsRowsWithinTimeframe ==
    Len(anHist) >= 2 =>
        /\ \A i \in 1..Len(SurvivingRows) : WithinTimeframe(SurvivingRows[i])
        /\ \A i \in 1..Len(CollectedRows) :
              /\ (WithinTimeframe(CollectedRows[i]) /\ PassesFormFilter(CollectedRows[i]))
                    => IsRowOf(CollectedRows[i], SurvivingRows)
              /\ ~WithinTimeframe(CollectedRows[i]) => ~IsRowOf(CollectedRows[i], SurvivingRows)
              /\ anReq.form = "both"
                    => (WithinTimeframe(CollectedRows[i]) <=> IsRowOf(CollectedRows[i], SurvivingRows))

\* a request for long videos of the last day: the video published exactly a
\* day ago survived, the one published two days ago was dropped
C28_Witness ==
    /\ Len(anHist) >= 2
    /\ anReq.form = "long"
    /\ anReq.timeframe_days = 1
    /\ \E i \in 1..Len(SurvivingRows) : SurvivingRows[i].published_at = Some(24)
    /\ \E i \in 1..Len(CollectedRows) :
          /\ CollectedRows[i].published_at = Some(48)
          /\ ~IsRowOf(CollectedRows[i], SurvivingRows)

\* C29: in every result of the timeframe analysis, total is the number of
\* rows that entered the threshold filter (the rows that survived the
\* time/form filter), filtered is the number of rows that left it and the
\* length of rows, filtered <= total, and settings carries the request's mode,
\* form, timeframe_days, region, language and its three thresholds.
C29_ResultCountsAndSettingsEcho ==
    anOut.status = "ok" =>
        /\ anOut.total = Len(EnrichedRows)
        /\ anOut.total = Len(SurvivingRows)
        /\ anOut.filtered = Len(ThresholdRows)
        /\ anOut.rows = ThresholdRows
        /\ anOut.filtered = Len(anOut.rows)
        /\ anOut.filtered <= anOut.total
        /\ anOut.settings.mode = anReq.mode
        /\ anOut.settings.form = anReq.form
        /\ anOut.settings.timeframe_days = anReq.timeframe_days
        /\ anOut.settings.region = anReq.region
        /\ anOut.settings.language = anReq.language
        /\ anOut.settings.thresholds.min_view_count = anReq.min_view_count
        /\ anOut.settings.thresholds.min_views_per_hour = anReq.min_views_per_hour
        /\ anOut.settings.thresholds.shorts_threshold_seconds = anReq.shorts_threshold_seconds

\* a result with non-default thresholds in which the time/form filter and
\* the threshold filter each dropped a row
C29_Witness ==
    /\ anOut.status = "ok"
    /\ anReq.min_view_count = 20000
    /\ Len(CollectedRows) > anOut.total
    /\ anOut.total > anOut.filtered
    /\ anOut.filtered > 0

\* the positions of the rows collected by channel and by keyword search
ChannelRowIndices == 1..Len(DeliveredByHandles(RequestedHandles))
KeywordRowIndices == (Len(DeliveredByHandles(RequestedHandles)) + 1)..Len(CollectedRows)

\* C30: a row collected through keyword search carries channel_id = null and
\* duration = null; whatever form is requested it survives the time/form
\* filter if it is inside the timeframe, and it keeps subscriber_count and
\* view_to_subscriber_ratio null to the end; a row the form filter removed or
\* enrichment filled in was collected by channel.
C30_KeywordRowsSkipFormFilterAndEnrichment ==
    /\ Len(anHist) >= 1 =>
          \A i \in KeywordRowIndices :
              CollectedRows[i].channel_id = None /\ CollectedRows[i].duration = None
    /\ Len(anHist) >= 2 =>
          \A i \in 1..Len(CollectedRows) :
              (WithinTimeframe(CollectedRows[i]) /\ ~IsRowOf(CollectedRows[i], SurvivingRows))
                  => /\ i \in ChannelRowIndices
                     /\ CollectedRows[i].duration # None
    /\ \A k \in 3..Len(anHist) :
          \A i \in 1..Len(anHist[k].rows) :
              \/ /\ anHist[k].rows[i].subscriber_count = None
                 /\ anHist[k].rows[i].view_to_subscriber_ratio = None
              \/ /\ anHist[k].rows[i].channel_id # None
                 /\ \E j \in ChannelRowIndices :
                       CollectedRows[j].video_id = anHist[k].rows[i].video_id
    /\ anOut.status = "ok" =>
          \A i \in 1..Len(anOut.rows) :
              anOut.rows[i].channel_id = None
                  => /\ anOut.rows[i].subscriber_count = None
                     /\ anOut.rows[i].view_to_subscriber_ratio = None
                     /\ anOut.rows[i].duration = None

\* a request for long videos by channel and by keyword: the keyword row is
\* in the result without subscriber count, a short channel video was removed
\* by the form filter and a channel row was enriched
C30_Witness ==
    /\ anOut.status = "ok"
    /\ anReq.form = "long"
    /\ \E i \in 1..Len(anOut.rows) :
          anOut.rows[i].channel_id = None /\ anOut.rows[i].subscriber_count = None
    /\ \E i \in ChannelRowIndices :
          WithinTimeframe(CollectedRows[i]) /\ ~IsRowOf(CollectedRows[i], SurvivingRows)
    /\ \E i \in 1..Len(EnrichedRows) : EnrichedRows[i].subscriber_count # None

====
